---- MODULE Spec2Model ----
(***************************************************************************)
(* TikTok profile song scraper: the classification pipeline                *)
(* (SongProcessor) and the scrape loop (TikTokScraper).                    *)
(*                                                                         *)
(* Strings whose characters matter (titles) are sequences of one-character *)
(* strings.  A response text of the backend is a sequence of lines, a line *)
(* a sequence of JSON tokens.  A Python dict of the classification output  *)
(* is a record with the keys the code reads; a key that is absent holds    *)
(* the value the code's r.get(key) would see.                              *)
(***************************************************************************)
EXTENDS Integers, Sequences, FiniteSets, TLC

\* ------------------------------------------------------------------ bounds
MaxTitles == 3        \* longest input list of process_songs
MaxBatch == 2         \* largest batch_size
MaxExtra == 1         \* a response may hold this many records more than its batch

\* ---------------------------------------------------------------- sequences
Min(a, b) == IF a < b THEN a ELSE b

\* Python s[lo:hi] for 0 <= lo
Slice(s, lo, hi) == SubSeq(s, lo + 1, Min(hi, Len(s)))

SeqsUpTo(S, n) == UNION {[1..k -> S] : k \in 0..n}

RECURSIVE Flatten(_)
Flatten(ss) == IF ss = <<>> THEN <<>> ELSE Head(ss) \o Flatten(Tail(ss))

\* ------------------------------------------------------------------ titles
\* the titles handed to process_songs: the j-th is the one-letter title Letters[j]
Letters == <<"a", "b", "c", "d", "e", "f">>
InputTitles(n) == [j \in 1..n |-> <<Letters[j]>>]

\* r.get("original_title") of a dict without that key
NoTitle == <<"None">>

\* ----------------------------------------------------- classification records
\* the value of r.get("error") when the dict has no such key
NoError == "(no error key)"

\* an item that can sit in all_results: a dict (kind "dict"), or what a
\* malformed response leaves there (kind "str": a string, kind "num": a number)
Item(kind, title, real, err, perr) ==
    [kind |-> kind, original_title |-> title, is_real_song |-> real,
     error |-> err, parse_error |-> perr]

\* a record as the backend returns it
BackendRecord(title, real) == Item("dict", title, real, NoError, FALSE)
EmptyDict == Item("dict", NoTitle, "None", NoError, FALSE)
StrItem == Item("str", NoTitle, "None", NoError, FALSE)
NumItem == Item("num", NoTitle, "None", NoError, FALSE)

\* the keys of a dict, as iterating it yields them
DictKeys(d) == IF d = EmptyDict THEN <<>> ELSE <<StrItem, StrItem>>

ErrorPlaceholderMissingTitle(title, e) == Item("dict", NoTitle, "None", e, FALSE)
\* processor.py 61-65: the record appended for a title of a failed batch
ErrorPlaceholder(title, e) == Item("dict", title, "None", e, FALSE)

ParsePlaceholderAsError(t) == Item("dict", t, "None", "JSONDecodeError", FALSE)
\* processor.py 121: the record synthesized for a title of an unparsable response
ParsePlaceholder(t) == Item("dict", t, "None", NoError, TRUE)

\* ---------------------------------------------------------------- JSON text
\* tokens: "[", "]", ",", "fence" (``` or ```json), "junk", and "val" (one
\* JSON value that is not an array: an object, a string or a number)
Tok(tk) == [tk |-> tk, v |-> NumItem]
Val(item) == [tk |-> "val", v |-> item]

\* the value json.loads returns: ty "list" (items), "dict" (one dict),
\* "str" (a string), "num" (a number, true, false or null)
JsonValue(ty, items) == [ok |-> TRUE, ty |-> ty, items |-> items]
JSONDecodeError == [ok |-> FALSE, ty |-> "error", items |-> <<>>]

\* whether a token sequence reads  v , v , ... , v
RECURSIVE IsItemList(_)
IsItemList(ts) ==
    \/ Len(ts) = 1 /\ ts[1].tk = "val"
    \/ /\ Len(ts) >= 3
       /\ ts[1].tk = "val"
       /\ ts[2].tk = ","
       /\ IsItemList(SubSeq(ts, 3, Len(ts)))

\* the values of a token sequence  v , v , ... , v
ListItems(ts) == [j \in 1..((Len(ts) + 1) \div 2) |-> ts[2 * j - 1].v]

\* json.loads on the text made of these lines (a newline is white space)
json_loads(lines) ==
    LET ts == Flatten(lines)
        n  == Len(ts)
    IN  IF n = 0 THEN JSONDecodeError
        ELSE IF n = 1 /\ ts[1].tk = "val"
             THEN JsonValue(ts[1].v.kind, <<ts[1].v>>)
        ELSE IF n >= 2 /\ ts[1].tk = "[" /\ ts[n].tk = "]"
             THEN IF n = 2 THEN JsonValue("list", <<>>)
                  ELSE IF IsItemList(SubSeq(ts, 2, n - 1))
                       THEN JsonValue("list", ListItems(SubSeq(ts, 2, n - 1)))
                       ELSE JSONDecodeError
        ELSE JSONDecodeError

\* str.strip() of a text: leading and trailing blank lines go
RECURSIVE LStripLines(_)
LStripLines(lines) ==
    IF lines # <<>> /\ Head(lines) = <<>> THEN LStripLines(Tail(lines)) ELSE lines

RECURSIVE RStripLines(_)
RStripLines(lines) ==
    IF lines # <<>> /\ lines[Len(lines)] = <<>>
    THEN RStripLines(SubSeq(lines, 1, Len(lines) - 1)) ELSE lines

StripText(lines) == RStripLines(LStripLines(lines))

\* response_text.startswith("```")
StartsWithFence(lines) ==
    lines # <<>> /\ lines[1] # <<>> /\ lines[1][1].tk = "fence"

UnfenceKeepLast(lines) == SubSeq(lines, 2, Len(lines))
\* processor.py 111-113: "\n".join(response_text.split("\n")[1:-1])
Unfence(lines) == SubSeq(lines, 2, Len(lines) - 1)


\* ------------------------------------------------------------- the backend
\* exceptions: a class and the text str(e) gives
Exc(cls, msg) == [cls |-> cls, msg |-> msg]
NoExc == Exc("", "(no exception)")

\* what client.models.generate_content can raise, and what a response whose
\* text is None makes response.text.strip() raise
BackendErrors ==
    {Exc("ClientError", "429 RESOURCE_EXHAUSTED"),
     Exc("AttributeError", "'NoneType' object has no attribute 'strip'")}

\* a title the backend makes up for a record beyond the batch
HallucinatedTitle == <<"z">>

Echo(batch, j) == IF j <= Len(batch) THEN batch[j] ELSE HallucinatedTitle

\* the arrays a response can hold for a batch: any length up to MaxExtra more
\* than the batch; every element a record, or the last one a bare number
ResponseArrays(batch) ==
    UNION {
        {[j \in 1..k |-> IF j = k /\ last = "num" THEN NumItem
                          ELSE BackendRecord(Echo(batch, j), "true")]
            : last \in (IF k = 0 THEN {"rec"} ELSE {"rec", "num"})}
        : k \in 0..(Len(batch) + MaxExtra)}

\* the JSON text of an array, as tokens
ArrayTokens(items) ==
    <<Tok("[")>>
    \o [j \in 1..(IF items = <<>> THEN 0 ELSE 2 * Len(items) - 1) |->
            IF j % 2 = 1 THEN Val(items[(j + 1) \div 2]) ELSE Tok(",")]
    \o <<Tok("]")>>

\* what the backend can answer for a batch, before any wrapping
ResponseContents(batch) ==
    {ArrayTokens(a) : a \in ResponseArrays(batch)}
    \cup {<<Val(BackendRecord(Echo(batch, 1), "true"))>>,    \* one object, no array
          <<Val(EmptyDict)>>,                                \* {}
          <<Val(NumItem)>>,                                  \* 5, null, true
          <<Val(StrItem)>>,                                  \* "x"
          <<Tok("junk")>>,                                   \* prose
          <<Tok("["), Val(BackendRecord(Echo(batch, 1), "true"))>>}  \* cut off

\* the content on one line, or one token per line
Layouts(ts) == {<<ts>>, [j \in 1..Len(ts) |-> <<ts[j]>>]}

FenceLine == <<Tok("fence")>>

\* bare; fenced; fenced with a trailing newline; with a leading blank line
Wrappings(lines) ==
    {lines,
     <<FenceLine>> \o lines \o <<FenceLine>>,
     <<FenceLine>> \o lines \o <<FenceLine, <<>>>>,
     <<<<>>>> \o lines}

Responses(batch) ==
    UNION {UNION {Wrappings(l) : l \in Layouts(ts)} : ts \in ResponseContents(batch)}

\* ============================================================ the scraper
\* --------------------------------------------------------- title extraction
\* str.strip() of a title: leading and trailing white space goes
RECURSIVE LStrip(_)
LStrip(t) == IF t # <<>> /\ Head(t) = " " THEN LStrip(Tail(t)) ELSE t

RECURSIVE RStrip(_)
RStrip(t) == IF t # <<>> /\ t[Len(t)] = " " THEN RStrip(SubSeq(t, 1, Len(t) - 1)) ELSE t

NoStrip(t) == t
Strip(t) == RStrip(LStrip(t))

\* the inner texts an element of the page can hold
RawTexts == {<<>>, <<" ">>, <<"a">>, <<"a", " ">>, <<" ", "b">>}

\* what a selector finds: an element that is not visible (or none), a driver
\* call that raises, or a visible element with its inner text
Hidden == [st |-> "hidden", text |-> <<>>]
Raises == [st |-> "raises", text |-> <<>>]
Visible(t) == [st |-> "visible", text |-> t]
ElemStates == {Hidden, Raises} \cup {Visible(t) : t \in RawTexts}

\* backend scraper.py 23-29
MUSIC_SELECTORS ==
    <<"a[data-e2e=browse-music]", "a[data-e2e=video-music]",
      "[data-e2e=browse-music-name]", "div[class*=DivMusicText]",
      "div[class*=MusicText]">>

\* scraper.py 235-241
music_selectors ==
    <<"div[class*=DivMusicText]", "div[class*=MusicText]",
      "a[data-e2e=browse-music]", "a[data-e2e=video-music]",
      "[data-e2e=browse-music-name]">>

Selectors == {MUSIC_SELECTORS[j] : j \in 1..Len(MUSIC_SELECTORS)}

\* a page: what every selector finds on it
Pages == [Selectors -> ElemStates]

\* None, where a title is expected
None == <<"None">>

\* the test both extractors make of a selector:
\* is_visible(), then  title and title.strip()
Yields(e) == e.st = "visible" /\ e.text # <<>> /\ Strip(e.text) # <<>>

RECURSIVE FirstTextStopsOnRaise(_, _)
FirstTextStopsOnRaise(page, chain) ==
    IF chain = <<>> \/ page[Head(chain)].st = "raises" THEN None
    ELSE IF Yields(page[Head(chain)]) THEN page[Head(chain)].text
    ELSE FirstTextStopsOnRaise(page, Tail(chain))

\* the inner text of the first selector of the chain that yields one
RECURSIVE FirstText(_, _)
FirstText(page, chain) ==
    IF chain = <<>> THEN None
    ELSE IF Yields(page[Head(chain)]) THEN page[Head(chain)].text
    ELSE FirstText(page, Tail(chain))

\* backend scraper.py 139-150
_get_music_title(page) ==
    LET t == FirstText(page, MUSIC_SELECTORS)
    IN  IF t = None THEN None ELSE Strip(t)

\* scraper.py 233-253
_extract_song_title(page) == FirstText(page, music_selectors)

\* whether a selector tried before the chain ended raised (the extractors
\* swallow it and go on with the next selector)
RECURSIVE SelectorRaised(_, _)
SelectorRaised(page, chain) ==
    IF chain = <<>> \/ Yields(page[Head(chain)]) THEN FALSE
    ELSE page[Head(chain)].st = "raises" \/ SelectorRaised(page, Tail(chain))

\* what a read of the viewer can give either extractor
ServiceTitles == {_get_music_title(p) : p \in Pages}
ServiceReads ==
    {[title |-> _get_music_title(p), raised |-> SelectorRaised(p, MUSIC_SELECTORS)]
        : p \in Pages}
RootReads ==
    {[title |-> _extract_song_title(p), raised |-> SelectorRaised(p, music_selectors)]
        : p \in Pages}

\* --------------------------------------------------------------- page loader
\* how one attempt of _try_load_page can go
AttemptOutcomes ==
    {"grid",            \* goto returns, the grid marker is observed
     "slow",            \* no grid, no error text in the page
     "soft_block",      \* no grid, the page says "Something went wrong"
     "goto_raises",     \* page.goto raises
     "content_raises"}  \* no grid, page.content() raises

\* backend scraper.py 209: self._try_load_page(page, max_retries=3)
MaxRetries == 3

Raising == {"goto_raises", "content_raises"}

BackoffAlways(attempt, max_retries) == TRUE
\* backend scraper.py 127, 134: if attempt < max_retries
BackoffDue(attempt, max_retries) == attempt < max_retries

LoadCaughtGotoOnly(outcome) == outcome = "goto_raises"
\* backend scraper.py 108, 132: the try around the whole attempt, except Exception
LoadCaught(outcome) == outcome \in Raising

\* backend scraper.py 128-130, 135: the seconds slept after a failed attempt
BackoffSeconds(outcome, attempt) == IF outcome \in Raising THEN 5 ELSE attempt * 5

\* what the loader gives: the result, the navigations made, the waits
\* (seconds) in order, and whether an exception left the function
Loaded(ok, navs, waits, raised) ==
    [ok |-> ok, navs |-> navs, waits |-> waits, raised |-> raised]

\* backend scraper.py 105-137, from attempt number `attempt` on
RECURSIVE TryLoadFrom(_, _, _)
TryLoadFrom(outs, attempt, max_retries) ==
    IF attempt > max_retries THEN Loaded(FALSE, 0, <<>>, FALSE)
    ELSE IF outs[attempt] = "grid" THEN Loaded(TRUE, 1, <<>>, FALSE)
    ELSE IF outs[attempt] \in Raising /\ ~LoadCaught(outs[attempt])
    THEN Loaded(FALSE, 1, <<>>, TRUE)
    ELSE LET wait == IF BackoffDue(attempt, max_retries)
                     THEN <<BackoffSeconds(outs[attempt], attempt)>>
                     ELSE <<>>
             rest == TryLoadFrom(outs, attempt + 1, max_retries)
         IN  Loaded(rest.ok, 1 + rest.navs, wait \o rest.waits, rest.raised)

_try_load_page(outs, max_retries) == TryLoadFrom(outs, 1, max_retries)

\* ---------------------------------------------------------- carousel navigator
\* backend scraper.py 162: for i in range(50)
VisiblePolls == 50
\* backend scraper.py 179: for _ in range(20)
TitlePolls == 20

\* what the page does during one advance of the backend scraper:
\*   visible_at  the poll at which the next control is first seen visible
\*               (VisiblePolls + 1: at none of them; 0: is_visible raises)
\*   disabled    what get_attribute('disabled') tells: "no", "yes", "raises"
\*   click       "ok" or "raises"
\*   stale       the number of title polls that read the title `old`
\*   old         the title of the video left, or None while nothing shows
\*   fresh       the title read at the polls after those
\*   final       the title read when the polls are over
AdvanceEnv(visible_at, disabled, click, stale, old, fresh, final) ==
    [visible_at |-> visible_at, disabled |-> disabled, click |-> click,
     stale |-> stale, old |-> old, fresh |-> fresh, final |-> final]

AdvanceEnvs(current_title) ==
    {AdvanceEnv(v, "no", "ok", 0, None, None, None) : v \in {0, VisiblePolls + 1}}
    \cup {AdvanceEnv(v, d, "ok", 0, None, None, None) :
            v \in {1, VisiblePolls}, d \in {"yes", "raises"}}
    \cup {AdvanceEnv(v, "no", "raises", 0, None, None, None) : v \in {1, VisiblePolls}}
    \cup {AdvanceEnv(v, "no", "ok", st, old, fr, fi) :
            v \in {1, VisiblePolls}, st \in {0, TitlePolls - 1, TitlePolls},
            old \in {None, current_title}, fr \in ServiceTitles, fi \in ServiceTitles}

\* the title _get_music_title gives at title poll j (TitlePolls + 1: the read
\* after the polls)
ReadAt(env, j) ==
    IF j <= env.stale THEN env.old
    ELSE IF j <= TitlePolls THEN env.fresh
    ELSE env.final

\* backend scraper.py 162-165: the is_visible() calls one advance makes
VisibilityPollsMade(env) ==
    IF env.visible_at = 0 THEN 1
    ELSE IF env.visible_at > VisiblePolls THEN VisiblePolls
    ELSE env.visible_at

\* backend scraper.py 179-183: the title polls one advance makes after its click
TitlePollsMade(env, current_title) ==
    IF env.visible_at = 0 \/ env.visible_at > VisiblePolls
       \/ env.disabled # "no" \/ env.click # "ok"
    THEN 0
    ELSE LET hits == {j \in 1..TitlePolls :
                        ReadAt(env, j) # None /\ ReadAt(env, j) # <<>>
                        /\ ReadAt(env, j) # current_title}
         IN  IF hits = {} THEN TitlePolls
             ELSE CHOOSE j \in hits : \A k \in hits : j <= k

\* what an advance gives: success, the new title, the clicks made on the next
\* control (clicks: click() returned; calls: click() was called), whether a
\* driver call raised, and whether that exception left the function
Advanced(ok, title, clicks, calls, raised, escaped) ==
    [ok |-> ok, title |-> title, clicks |-> clicks, calls |-> calls,
     raised |-> raised, escaped |-> escaped]

NoAdvance == Advanced(FALSE, None, 0, 0, FALSE, FALSE)

NeverDisabled(attr) == FALSE
\* backend scraper.py 171: next_button.get_attribute('disabled') is not None
IsDisabled(attr) == attr = "yes"

\* backend scraper.py 181: if new_title and new_title != current_title
TitleChanged(new_title, current_title) ==
    new_title # None /\ new_title # <<>> /\ new_title # current_title

AfterPollsGiveUp(final) == Advanced(FALSE, None, 1, 1, FALSE, FALSE)
\* backend scraper.py 185-186: the title did not change within the polls
AfterPolls(final) == Advanced(TRUE, final, 1, 1, FALSE, FALSE)

\* backend scraper.py 178-186: the polls after the click
AfterClick(env, current_title) ==
    LET hits == {j \in 1..TitlePolls : TitleChanged(ReadAt(env, j), current_title)}
    IN  IF hits # {}
        THEN Advanced(TRUE, ReadAt(env, CHOOSE j \in hits : \A k \in hits : j <= k),
                      1, 1, FALSE, FALSE)
        ELSE AfterPolls(ReadAt(env, TitlePolls + 1))

AdvanceWithoutTry(env, current_title) ==
    IF env.visible_at = 0 THEN Advanced(FALSE, None, 0, 0, TRUE, TRUE)
    ELSE IF env.visible_at > VisiblePolls THEN NoAdvance
    ELSE IF env.disabled = "raises" THEN Advanced(FALSE, None, 0, 0, TRUE, TRUE)
    ELSE IF IsDisabled(env.disabled) THEN NoAdvance
    ELSE IF env.click = "raises" THEN Advanced(FALSE, None, 0, 1, TRUE, TRUE)
    ELSE AfterClick(env, current_title)

\* backend scraper.py 152-190
_click_next_and_wait_for_change(env, current_title) ==
    IF env.visible_at = 0                                         \* 163, 188-190
    THEN Advanced(FALSE, None, 0, 0, TRUE, FALSE)
    ELSE IF env.visible_at > VisiblePolls THEN NoAdvance          \* 162-168
    ELSE IF env.disabled = "raises"                               \* 171, 188-190
    THEN Advanced(FALSE, None, 0, 0, TRUE, FALSE)
    ELSE IF IsDisabled(env.disabled) THEN NoAdvance               \* 171-173
    ELSE IF env.click = "raises"                                  \* 176, 188-190
    THEN Advanced(FALSE, None, 0, 1, TRUE, FALSE)
    ELSE AfterClick(env, current_title)                           \* 178-186

\* scraper.py 255: def _navigate_to_next_video(self, page, retries=3)
NavRetries == 3

\* how one attempt of _navigate_to_next_video can go
NavOutcomes == {"hidden", "raises", "disabled", "click_raises", "clicked"}

\* scraper.py 259-280, from attempt number `attempt` (0-based) on
RECURSIVE NavigateFrom(_, _, _)
NavigateFrom(outs, attempt, retries) ==
    IF attempt >= retries THEN NoAdvance
    ELSE CASE outs[attempt + 1] = "clicked" -> Advanced(TRUE, None, 1, 1, FALSE, FALSE)
           [] outs[attempt + 1] = "disabled" -> NoAdvance
           [] outs[attempt + 1] = "click_raises" ->
                LET rest == NavigateFrom(outs, attempt + 1, retries)
                IN  Advanced(rest.ok, None, rest.clicks, rest.calls + 1, TRUE, FALSE)
           [] outs[attempt + 1] = "raises" ->
                LET rest == NavigateFrom(outs, attempt + 1, retries)
                IN  Advanced(rest.ok, None, rest.clicks, rest.calls, TRUE, FALSE)
           [] OTHER -> NavigateFrom(outs, attempt + 1, retries)

_navigate_to_next_video(outs, retries) == NavigateFrom(outs, 0, retries)

\* scraper.py 282-292: vis is what is_visible tells ("visible", "hidden",
\* "raises"), click is "ok" or "raises"
_try_recover_navigation(vis, click) ==
    IF vis = "visible"
    THEN IF click = "ok" THEN Advanced(TRUE, None, 1, 1, FALSE, FALSE)
         ELSE Advanced(FALSE, None, 0, 1, TRUE, FALSE)
    ELSE Advanced(FALSE, None, 0, 0, vis = "raises", FALSE)

\* =================================================================== state
VARIABLES
    \* SongProcessor.process_songs
    raw_titles,     \* the input list
    batch_size,
    i,              \* the loop variable of  for i in range(0, len(raw_titles), batch_size)
    all_results,
    ppc,            \* where process_songs stands: "loop", "request", "sleep", "done", "raised"
    inflight,       \* backend requests issued and not yet returned
    \* history of the call
    sent,           \* the batches requested, in order
    prov,           \* for every item of all_results: the batch that put it there and how
    outcome,        \* for every finished batch: how its request ended
    events,         \* the requests ("req") and inter-batch delays ("sleep"), in order
    \* TikTokScraper.scrape_songs
    impl,           \* "service": backend/app/services/scraper.py, "root": scraper.py
    max_videos,
    songs,          \* self.songs
    spc,            \* where scrape_songs stands
    song_titles,    \* the local set of titles already appended
    video_count,
    current_title,  \* backend scraper only
    \* history of the call
    closed,         \* what the finally block closed, in order
    diag,           \* the diagnostic captures attempted, in order, each with how it went
    clicks,         \* clicks made on the next control (click() returned)
    click_calls,    \* click() calls on the next control
    observed,       \* the title each recording step was given, in order
    faults,         \* the kinds of exception raised so far
    songs_at_fault, \* self.songs when the latest exception was raised
    last_advance,   \* what the latest advance reported: "none", "advanced", "stopped"
    loads,          \* calls of _try_load_page
    first_clicks,   \* clicks made on the first video of the grid
    trace,          \* the steps scrape_songs took, in order, each with how it went
    \* one call of a function that keeps no state of its own
    fpc,            \* "idle", "called" or "returned"
    call,           \* the function called and its arguments
    ret,            \* what it returned
    \* the service process: its event loop, executor and requests
    pool,
    \* a command-line run: the output files written, in order
    files

pvars == <<raw_titles, batch_size, i, all_results, ppc, inflight, sent, prov, outcome, events>>

svars == <<impl, max_videos, songs, spc, song_titles, video_count, current_title,
           closed, diag, clicks, click_calls, observed, faults, songs_at_fault,
           last_advance, loads, first_clicks, trace>>

fvars == <<fpc, call, ret, pool, files>>

vars == <<pvars, svars, fvars>>

\* no function call is under way
FIdle ==
    /\ fpc = "idle"
    /\ call = <<>>
    /\ ret = <<>>
    /\ pool = <<>>
    /\ files = <<>>

\* ------------------------------------------------------- _process_batch
\* processor.py 109-121: from the response text to the value returned
_process_batch(titles, text) ==
    LET stripped == StripText(text)
        body     == IF StartsWithFence(stripped) THEN Unfence(stripped) ELSE stripped
        results  == json_loads(body)
    IN  IF results.ok THEN results
        ELSE JsonValue("list", [j \in 1..Len(titles) |-> ParsePlaceholder(titles[j])])

\* how a response text reads: "parse_error" (json.loads raises), "parsed" (an
\* array of records), "not_records" (valid JSON of another shape)
ResponseKind(text) ==
    LET stripped == StripText(text)
        v == json_loads(IF StartsWithFence(stripped) THEN Unfence(stripped) ELSE stripped)
    IN  IF ~v.ok THEN "parse_error"
        ELSE IF v.ty = "list" /\ \A j \in 1..Len(v.items) : v.items[j].kind = "dict"
             THEN "parsed"
             ELSE "not_records"

\* ------------------------------------------------------- process_songs
\* processor.py 43: raw_titles[i:i + batch_size]
Batch(titles, at, size) == Slice(titles, at, at + size)

NextIndexByOne(at, size) == at + 1
\* processor.py 42: the step of range(0, len(raw_titles), batch_size)
NextIndex(at, size) == at + size

\* processor.py 51: what all_results.extend(results) appends
Extended(results) ==
    CASE results.ty = "list" -> results.items
      [] results.ty = "dict" -> DictKeys(results.items[1])
      [] results.ty = "str"  -> <<StrItem>>
      [] OTHER               -> <<>>

\* processor.py 51-52: the exception extend or r.get('is_real_song') raises
TryBodyExc(results) ==
    IF results.ty = "num"
    THEN Exc("TypeError", "'int' object is not iterable")
    ELSE LET app == Extended(results)
             bad == {j \in 1..Len(app) : app[j].kind # "dict"}
         IN  IF bad = {} THEN NoExc
             ELSE Exc("AttributeError",
                      IF app[CHOOSE j \in bad : \A k \in bad : j <= k].kind = "str"
                      THEN "'str' object has no attribute 'get'"
                      ELSE "'int' object has no attribute 'get'")

CaughtClientErrorOnly(e) == e.cls = "ClientError"
\* processor.py 58: except Exception
Caught(e) == e.cls \in {"ClientError", "AttributeError", "TypeError", "ValueError"}

SleepAlways(at, size, n) == TRUE
\* processor.py 55: if i + batch_size < len(raw_titles)
MoreBatches(at, size, n) == at + size < n

\* processor.py 60-65
Placeholders(batch, e) == [j \in 1..Len(batch) |-> ErrorPlaceholder(batch[j], e.msg)]

Tags(n, k, how) == [j \in 1..n |-> [batch |-> k, how |-> how]]

PInit ==
    /\ raw_titles \in {InputTitles(n) : n \in 0..MaxTitles}
    /\ batch_size \in 1..MaxBatch
    /\ i = 0
    /\ all_results = <<>>
    /\ ppc = "loop"
    /\ inflight = 0
    /\ sent = <<>>
    /\ prov = <<>>
    /\ outcome = <<>>
    /\ events = <<>>

RequestAnyTime(pc) == pc \in {"loop", "request"}
\* processor.py 50: _process_batch is called from the loop body and nowhere
\* else, so a request is issued only while no other one is being waited for
MayRequest(pc) == pc = "loop"

\* processor.py 42-50: the loop head; slices the batch and issues its request
StartBatch ==
    /\ MayRequest(ppc)
    /\ i < Len(raw_titles)
    /\ ppc' = "request"
    /\ inflight' = inflight + 1
    /\ sent' = Append(sent, Batch(raw_titles, i, batch_size))
    /\ events' = Append(events, "req")
    /\ UNCHANGED <<svars, fvars>>
    /\ UNCHANGED <<raw_titles, batch_size, i, all_results, prov, outcome>>

\* processor.py 67: the range is exhausted, return all_results
Return ==
    /\ ppc = "loop"
    /\ i >= Len(raw_titles)
    /\ ppc' = "done"
    /\ UNCHANGED <<svars, fvars>>
    /\ UNCHANGED <<raw_titles, batch_size, i, all_results, inflight, sent, prov, outcome, events>>

\* processor.py 58-65: the handler of the batch's try
Handle(e, batch, results_so_far, prov_so_far, how) ==
    IF Caught(e)
    THEN /\ all_results' = results_so_far \o Placeholders(batch, e)
         /\ prov' = prov_so_far \o Tags(Len(batch), Len(sent), "error")
         /\ outcome' = Append(outcome, how)
         /\ i' = NextIndex(i, batch_size)
         /\ ppc' = "loop"
    ELSE /\ all_results' = results_so_far
         /\ prov' = prov_so_far
         /\ outcome' = Append(outcome, how)
         /\ i' = i
         /\ ppc' = "raised"

\* processor.py 105-108, 58-65: the request raises
BackendRaises ==
    /\ ppc = "request"
    /\ \E e \in BackendErrors :
          Handle(e, Batch(raw_titles, i, batch_size), all_results, prov, "raised")
    /\ inflight' = inflight - 1
    /\ UNCHANGED <<svars, fvars>>
    /\ UNCHANGED <<raw_titles, batch_size, sent, events>>

\* processor.py 105-121, 51-56, 58-65: the request returns a text
BackendResponds ==
    /\ ppc = "request"
    /\ \E text \in Responses(Batch(raw_titles, i, batch_size)) :
          LET batch   == Batch(raw_titles, i, batch_size)
              results == _process_batch(batch, text)
              exc     == TryBodyExc(results)
              app     == Extended(results)
              how     == ResponseKind(text)
              res1    == all_results \o app
              prov1   == prov \o Tags(Len(app), Len(sent), how)
          IN  IF exc = NoExc
              THEN /\ all_results' = res1
                   /\ prov' = prov1
                   /\ outcome' = Append(outcome, how)
                   /\ IF MoreBatches(i, batch_size, Len(raw_titles))
                      THEN ppc' = "sleep" /\ i' = i
                      ELSE ppc' = "loop" /\ i' = NextIndex(i, batch_size)
              ELSE Handle(exc, batch, res1, prov1, how)
    /\ inflight' = inflight - 1
    /\ UNCHANGED <<svars, fvars>>
    /\ UNCHANGED <<raw_titles, batch_size, sent, events>>

\* processor.py 56: time.sleep(1)
Sleep ==
    /\ ppc = "sleep"
    /\ events' = Append(events, "sleep")
    /\ i' = NextIndex(i, batch_size)
    /\ ppc' = "loop"
    /\ UNCHANGED <<svars, fvars>>
    /\ UNCHANGED <<raw_titles, batch_size, all_results, inflight, sent, prov, outcome>>

PNext == StartBatch \/ Return \/ BackendRaises \/ BackendResponds \/ Sleep

\* process_songs has not been called
PIdle ==
    /\ raw_titles = <<>>
    /\ batch_size = 1
    /\ i = 0
    /\ all_results = <<>>
    /\ ppc = "idle"
    /\ inflight = 0
    /\ sent = <<>>
    /\ prov = <<>>
    /\ outcome = <<>>
    /\ events = <<>>

\* ------------------------------------------------------------ scrape_songs
\* what _try_load_page(page, max_retries=3) can give, over all the ways its
\* attempts can go
LoadRuns == {_try_load_page(outs, MaxRetries) : outs \in [1..MaxRetries -> AttemptOutcomes]}

\* what _click_next_and_wait_for_change(page, current_title) can give, over
\* all the things the page can do
AdvanceRuns(title) ==
    {_click_next_and_wait_for_change(env, title) : env \in AdvanceEnvs(title)}

\* what _navigate_to_next_video(page) can give, over all the ways its attempts
\* can go
NavigateRuns ==
    {_navigate_to_next_video(outs, NavRetries) : outs \in [1..NavRetries -> NavOutcomes]}

MaxVideos == 3        \* largest max_videos
LiveVideos == 2       \* largest max_videos where calls are followed to their end
LiveTitles == 2       \* most titles where calls are followed to their end

\* Python truth of a title: neither None nor ""
Truthy(t) == t # None /\ t # <<>>

AlwaysNew(title, seen) == TRUE
\* backend scraper.py 239, scraper.py 200: if title not in song_titles
NotSeen(title, seen) == title \notin seen

UpToCap(count, cap) == count <= cap
\* backend scraper.py 235, scraper.py 191: while video_count < max_videos
UnderCap(count, cap) == count < cap

\* backend scraper.py 249-251: if not success: break
AdvanceBlocks(success) == IF success THEN "loop" ELSE "blocked"
AfterAdvance(success) == IF success THEN "loop" ELSE "finally"

ReturnSkipsFinally == "returned"
ReturnMissing == "click_first"
\* backend scraper.py 219, 263: the return in the try block runs the finally block
AfterReturnInTry == "finally"

\* backend scraper.py 31-42 and 192: a new scraper, scrape_songs not yet called
SInit ==
    /\ impl \in {"service", "root"}
    /\ max_videos \in 0..MaxVideos
    /\ songs = <<>>
    /\ spc = "idle"
    /\ song_titles = {}
    /\ video_count = 0
    /\ current_title = None
    /\ closed = <<>>
    /\ diag = <<>>
    /\ clicks = 0
    /\ click_calls = 0
    /\ observed = <<>>
    /\ faults = {}
    /\ songs_at_fault = <<>>
    /\ last_advance = "none"
    /\ loads = 0
    /\ first_clicks = 0
    /\ trace = <<>>

\* no scraper is at work
SIdle ==
    /\ impl = "service"
    /\ max_videos = 0
    /\ songs = <<>>
    /\ spc = "idle"
    /\ song_titles = {}
    /\ video_count = 0
    /\ current_title = None
    /\ closed = <<>>
    /\ diag = <<>>
    /\ clicks = 0
    /\ click_calls = 0
    /\ observed = <<>>
    /\ faults = {}
    /\ songs_at_fault = <<>>
    /\ last_advance = "none"
    /\ loads = 0
    /\ first_clicks = 0
    /\ trace = <<>>

\* an exception of kind k is raised
Fault(k) == faults' = faults \cup {k} /\ songs_at_fault' = songs
NoFault == UNCHANGED <<faults, songs_at_fault>>

\* backend scraper.py 203-206: _setup_browser is called before the try block
SetupFaultCaught == "except"
AfterSetupFault == "propagated"

\* backend scraper.py 228, 255: wait_for_selector raises inside the try block
ViewerFaultSkipsHandler == "finally"
AfterViewerFault == "except"

\* backend scraper.py 203-204, 48-101: launch the browser, make the context
\* and the page; a failure leaves scrape_songs at once
Setup ==
    /\ spc = "idle"
    /\ \/ spc' = "load" /\ NoFault /\ trace' = Append(trace, "launch")
       \/ spc' = AfterSetupFault /\ Fault("setup") /\ trace' = Append(trace, "launch_raised")
    /\ UNCHANGED <<pvars, fvars>>
    /\ UNCHANGED <<loads, first_clicks>>
    /\ UNCHANGED <<impl, max_videos, songs, song_titles, video_count, current_title,
                   closed, diag, clicks, click_calls, observed, last_advance>>

\* backend scraper.py 209
LoadPage ==
    /\ spc = "load"
    /\ \E r \in LoadRuns :
          IF r.raised
          THEN spc' = "except" /\ Fault("load") /\ trace' = Append(trace, "load_raised")
          ELSE /\ spc' = (IF r.ok THEN "click_first" ELSE "debug_screenshot")
               /\ trace' = Append(trace, IF r.ok THEN "load_ok" ELSE "load_failed")
               /\ NoFault
    /\ UNCHANGED <<pvars, fvars>>
    /\ loads' = loads + 1
    /\ UNCHANGED first_clicks
    /\ UNCHANGED <<impl, max_videos, songs, song_titles, video_count, current_title,
                   closed, diag, clicks, click_calls, observed, last_advance>>

\* backend scraper.py 211-213
DebugScreenshot ==
    /\ spc = "debug_screenshot"
    /\ \/ /\ diag' = Append(diag, <<"debug_screenshot.png", "ok">>)
          /\ spc' = "debug_html"
          /\ NoFault
       \/ /\ diag' = Append(diag, <<"debug_screenshot.png", "raised">>)
          /\ spc' = "except"
          /\ Fault("diag")
    /\ UNCHANGED <<pvars, fvars>>
    /\ UNCHANGED <<loads, first_clicks>>
    /\ trace' = Append(trace, "debug_screenshot")
    /\ UNCHANGED <<impl, max_videos, songs, song_titles, video_count, current_title,
                   closed, clicks, click_calls, observed, last_advance>>

\* backend scraper.py 215-219
DebugHtml ==
    /\ spc = "debug_html"
    /\ \/ /\ diag' = Append(diag, <<"debug_page.html", "ok">>)
          /\ spc' = AfterReturnInTry
          /\ NoFault
       \/ /\ diag' = Append(diag, <<"debug_page.html", "raised">>)
          /\ spc' = "except"
          /\ Fault("diag")
    /\ UNCHANGED <<pvars, fvars>>
    /\ UNCHANGED <<loads, first_clicks>>
    /\ trace' = Append(trace, "debug_html")
    /\ UNCHANGED <<impl, max_videos, songs, song_titles, video_count, current_title,
                   closed, clicks, click_calls, observed, last_advance>>

\* backend scraper.py 223-224
ClickFirst ==
    /\ spc = "click_first"
    /\ \/ /\ spc' = "wait_viewer" /\ first_clicks' = first_clicks + 1 /\ NoFault
          /\ trace' = Append(trace, "click_first")
       \/ /\ spc' = "except" /\ UNCHANGED first_clicks /\ Fault("first_click")
          /\ trace' = Append(trace, "click_first_raised")
    /\ UNCHANGED <<pvars, fvars>>
    /\ UNCHANGED loads
    /\ UNCHANGED <<impl, max_videos, songs, song_titles, video_count, current_title,
                   closed, diag, clicks, click_calls, observed, last_advance>>

\* backend scraper.py 228-232, scraper.py 185-189
WaitViewer ==
    /\ spc = "wait_viewer"
    /\ \/ /\ spc' = IF impl = "service" THEN "first_extract" ELSE "loop"
          /\ song_titles' = {}
          /\ video_count' = 0
          /\ NoFault
          /\ trace' = Append(trace, "viewer")
       \/ /\ spc' = AfterViewerFault
          /\ Fault("viewer")
          /\ trace' = Append(trace, "viewer_raised")
          /\ UNCHANGED <<song_titles, video_count>>
    /\ UNCHANGED <<pvars, fvars>>
    /\ UNCHANGED <<loads, first_clicks>>
    /\ UNCHANGED <<impl, max_videos, songs, current_title,
                   closed, diag, clicks, click_calls, observed, last_advance>>

\* backend scraper.py 233
FirstExtract ==
    /\ spc = "first_extract"
    /\ \E r \in ServiceReads :
          /\ current_title' = r.title
          /\ IF r.raised THEN Fault("extract") ELSE NoFault
    /\ spc' = "loop"
    /\ UNCHANGED <<pvars, fvars>>
    /\ UNCHANGED <<loads, first_clicks>>
    /\ trace' = Append(trace, "extract")
    /\ UNCHANGED <<impl, max_videos, songs, song_titles, video_count,
                   closed, diag, clicks, click_calls, observed, last_advance>>

\* backend scraper.py 235-246: one pass of the loop up to the advance
Record ==
    /\ spc = "loop"
    /\ impl = "service"
    /\ UnderCap(video_count, max_videos)
    /\ video_count' = video_count + 1
    /\ IF Truthy(current_title) /\ NotSeen(current_title, song_titles)
       THEN /\ songs' = Append(songs, current_title)
            /\ song_titles' = song_titles \cup {current_title}
       ELSE UNCHANGED <<songs, song_titles>>
    /\ observed' = Append(observed, current_title)
    /\ spc' = "advance"
    /\ NoFault
    /\ UNCHANGED <<pvars, fvars>>
    /\ UNCHANGED <<loads, first_clicks>>
    /\ trace' = Append(trace, "record")
    /\ UNCHANGED <<impl, max_videos, current_title,
                   closed, diag, clicks, click_calls, last_advance>>

\* backend scraper.py 249-251
Advance ==
    /\ spc = "advance"
    /\ impl = "service"
    /\ \E r \in AdvanceRuns(current_title) :
          /\ clicks' = clicks + r.clicks
          /\ click_calls' = click_calls + r.calls
          /\ IF r.raised THEN Fault("advance") ELSE NoFault
          /\ IF r.escaped
             THEN spc' = "except" /\ UNCHANGED <<current_title, last_advance>>
             ELSE /\ current_title' = r.title
                  /\ last_advance' = (IF r.ok THEN "advanced" ELSE "stopped")
                  /\ spc' = AfterAdvance(r.ok)
    /\ UNCHANGED <<pvars, fvars>>
    /\ UNCHANGED <<loads, first_clicks>>
    /\ trace' = Append(trace, "advance")
    /\ UNCHANGED <<impl, max_videos, songs, song_titles, video_count,
                   closed, diag, observed>>

\* scraper.py 191-207: one pass of the loop up to the advance
RootRecord ==
    /\ spc = "loop"
    /\ impl = "root"
    /\ UnderCap(video_count, max_videos)
    /\ video_count' = video_count + 1
    /\ \E r \in RootReads :
          /\ IF Truthy(r.title) /\ Strip(r.title) # <<>>
                /\ NotSeen(Strip(r.title), song_titles)
             THEN /\ songs' = Append(songs, Strip(r.title))
                  /\ song_titles' = song_titles \cup {Strip(r.title)}
             ELSE UNCHANGED <<songs, song_titles>>
          /\ observed' = Append(observed, r.title)
          /\ IF r.raised THEN Fault("extract") ELSE NoFault
    /\ spc' = "advance"
    /\ UNCHANGED <<pvars, fvars>>
    /\ UNCHANGED <<loads, first_clicks>>
    /\ trace' = Append(trace, "record")
    /\ UNCHANGED <<impl, max_videos, current_title,
                   closed, diag, clicks, click_calls, last_advance>>

\* scraper.py 209-210
RootNavigate ==
    /\ spc = "advance"
    /\ impl = "root"
    /\ \E r \in NavigateRuns :
          /\ clicks' = clicks + r.clicks
          /\ click_calls' = click_calls + r.calls
          /\ IF r.raised THEN Fault("advance") ELSE NoFault
          /\ last_advance' = (IF r.ok THEN "advanced" ELSE "stopped")
          /\ spc' = IF r.ok THEN "loop" ELSE "finally"
    /\ UNCHANGED <<pvars, fvars>>
    /\ UNCHANGED <<loads, first_clicks>>
    /\ trace' = Append(trace, "advance")
    /\ UNCHANGED <<impl, max_videos, songs, song_titles, video_count, current_title,
                   closed, diag, observed>>

\* backend scraper.py 236-246, 255; scraper.py 192-207, 212-213: a statement
\* of the loop body outside the helpers raises (a print that cannot encode the
\* title) before the title is appended.  The backend scraper leaves the loop
\* for the handler of scrape_songs; the root scraper catches it in the loop.
LoopBodyFault ==
    /\ spc = "loop"
    /\ UnderCap(video_count, max_videos)
    /\ video_count' = video_count + 1
    /\ spc' = IF impl = "service" THEN "except" ELSE "recover"
    /\ Fault("loop_body")
    /\ UNCHANGED <<pvars, fvars>>
    /\ UNCHANGED <<loads, first_clicks>>
    /\ trace' = Append(trace, "loop_body_raised")
    /\ UNCHANGED <<impl, max_videos, songs, song_titles, current_title,
                   closed, diag, clicks, click_calls, observed, last_advance>>

\* scraper.py 214-216
RootRecover ==
    /\ spc = "recover"
    /\ \E vis \in {"visible", "hidden", "raises"}, click \in {"ok", "raises"} :
          LET r == _try_recover_navigation(vis, click)
          IN  /\ clicks' = clicks + r.clicks
              /\ click_calls' = click_calls + r.calls
              /\ last_advance' = (IF r.ok THEN "advanced" ELSE "stopped")
              /\ spc' = IF r.ok THEN "loop" ELSE "finally"
    /\ NoFault
    /\ UNCHANGED <<pvars, fvars>>
    /\ UNCHANGED <<loads, first_clicks>>
    /\ trace' = Append(trace, "recover")
    /\ UNCHANGED <<impl, max_videos, songs, song_titles, video_count, current_title,
                   closed, diag, observed>>

\* backend scraper.py 235, 253: the cap is reached
LoopEnd ==
    /\ spc = "loop"
    /\ ~UnderCap(video_count, max_videos)
    /\ spc' = "finally"
    /\ NoFault
    /\ UNCHANGED <<pvars, fvars>>
    /\ UNCHANGED <<loads, first_clicks>>
    /\ trace' = Append(trace, "cap")
    /\ UNCHANGED <<impl, max_videos, songs, song_titles, video_count, current_title,
                   closed, diag, clicks, click_calls, observed, last_advance>>

\* backend scraper.py 255-262: the handler; a failing screenshot is swallowed
ErrorScreenshot ==
    /\ spc = "except"
    /\ \E how \in {"ok", "raised"} :
          diag' = Append(diag, <<"error_screenshot.png", how>>)
    /\ spc' = "finally"
    /\ NoFault
    /\ UNCHANGED <<pvars, fvars>>
    /\ UNCHANGED <<loads, first_clicks>>
    /\ trace' = Append(trace, "error_screenshot")
    /\ UNCHANGED <<impl, max_videos, songs, song_titles, video_count, current_title,
                   closed, clicks, click_calls, observed, last_advance>>

\* backend scraper.py 263-264
CloseContext ==
    /\ spc = "finally"
    /\ closed' = Append(closed, "context")
    /\ spc' = "finally_browser"
    /\ NoFault
    /\ UNCHANGED <<pvars, fvars>>
    /\ UNCHANGED <<loads, first_clicks>>
    /\ trace' = Append(trace, "close_context")
    /\ UNCHANGED <<impl, max_videos, songs, song_titles, video_count, current_title,
                   diag, clicks, click_calls, observed, last_advance>>

\* backend scraper.py 265-268
CloseBrowser ==
    /\ spc = "finally_browser"
    /\ closed' = Append(closed, "browser")
    /\ spc' = "returned"
    /\ NoFault
    /\ UNCHANGED <<pvars, fvars>>
    /\ UNCHANGED <<loads, first_clicks>>
    /\ trace' = Append(trace, "close_browser")
    /\ UNCHANGED <<impl, max_videos, songs, song_titles, video_count, current_title,
                   diag, clicks, click_calls, observed, last_advance>>

MaxCalls == 2         \* most scrape_songs calls in a row

\* the calls made before the current one, each on the object of the call
\* before it ("again") or on a new TikTokScraper ("new")
EarlierCalls == SelectSeq(trace, LAMBDA step : step \in {"again", "new"})

\* what a further call starts from: the locals and the history of the call
\* before are gone
CallStarts(how) ==
    /\ spc \in {"returned", "propagated"}
    /\ Len(EarlierCalls) < MaxCalls - 1
    /\ spc' = "idle"
    /\ trace' = Append(EarlierCalls, how)
    /\ song_titles' = {}
    /\ video_count' = 0
    /\ current_title' = None
    /\ closed' = <<>>
    /\ diag' = <<>>
    /\ clicks' = 0
    /\ click_calls' = 0
    /\ observed' = <<>>
    /\ faults' = {}
    /\ songs_at_fault' = <<>>
    /\ last_advance' = "none"
    /\ loads' = 0
    /\ first_clicks' = 0
    /\ UNCHANGED <<pvars, fvars>>
    /\ UNCHANGED <<impl, max_videos>>

\* backend scraper.py 192-203: scrape_songs is called once more on the same
\* object; nothing in it assigns self.songs
CallAgain ==
    /\ CallStarts("again")
    /\ UNCHANGED songs

\* backend scraper.py 31-42: scrape_songs is called on a new TikTokScraper
CallOnNew ==
    /\ CallStarts("new")
    /\ songs' = <<>>

SNext ==
    \/ Setup \/ LoadPage \/ DebugScreenshot \/ DebugHtml \/ ClickFirst \/ WaitViewer
    \/ FirstExtract \/ Record \/ Advance
    \/ RootRecord \/ RootNavigate \/ LoopBodyFault \/ RootRecover
    \/ LoopEnd \/ ErrorScreenshot \/ CloseContext \/ CloseBrowser

\* ------------------------------------------------- _process_batch, one call
\* how a fenced code block can wrap a content: "closed" (opening fence line,
\* content, closing fence line), "unclosed" (the closing fence is missing),
\* "same_line" (the closing fence ends the last line of the content)
FenceShapes == {"closed", "unclosed", "same_line"}

Fenced(lines, shape) ==
    CASE shape = "closed" -> <<FenceLine>> \o lines \o <<FenceLine>>
      [] shape = "unclosed" -> <<FenceLine>> \o lines
      [] OTHER -> <<FenceLine>> \o SubSeq(lines, 1, Len(lines) - 1)
                  \o <<lines[Len(lines)] \o <<Tok("fence")>>>>

\* the calls: a batch, a response content laid out in lines, and the shape of
\* the fence the same content also arrives in
ParseCalls ==
    UNION {UNION {{[fn |-> "_process_batch", titles |-> InputTitles(n),
                    content |-> l, shape |-> sh]
                      : l \in Layouts(ts), sh \in FenceShapes}
                  : ts \in ResponseContents(InputTitles(n))}
           : n \in 1..MaxTitles}

ParseInit ==
    /\ PIdle
    /\ SIdle
    /\ fpc = "called"
    /\ call \in ParseCalls
    /\ ret = <<>>
    /\ pool = <<>>
    /\ files = <<>>

\* processor.py 105-121: the response text is the content, bare or fenced
ParseReturn ==
    /\ fpc = "called"
    /\ call.fn = "_process_batch"
    /\ ret' = [bare   |-> _process_batch(call.titles, call.content),
               fenced |-> _process_batch(call.titles, Fenced(call.content, call.shape))]
    /\ fpc' = "returned"
    /\ UNCHANGED <<call, pool, files, pvars, svars>>

\* ------------------------------------------------- _try_load_page, one call
MaxAttempts == 3      \* largest max_retries

\* the calls: max_retries, and how each attempt goes if it is made
LoadCalls ==
    UNION {{[fn |-> "_try_load_page", max_retries |-> n, outs |-> o]
               : o \in [1..n -> AttemptOutcomes]}
           : n \in 1..MaxAttempts}

LoadInit ==
    /\ PIdle
    /\ SIdle
    /\ fpc = "called"
    /\ call \in LoadCalls
    /\ ret = <<>>
    /\ pool = <<>>
    /\ files = <<>>

\* backend scraper.py 103-137
LoadReturn ==
    /\ fpc = "called"
    /\ call.fn = "_try_load_page"
    /\ ret' = _try_load_page(call.outs, call.max_retries)
    /\ fpc' = "returned"
    /\ UNCHANGED <<call, pool, files, pvars, svars>>

\* ------------------------------------------------------ one advance, one call
\* the calls of the backend scraper's advance: the title shown before, and
\* what the page does
AdvanceCalls ==
    UNION {{[fn |-> "_click_next_and_wait_for_change", current_title |-> t, env |-> e]
               : e \in AdvanceEnvs(t)}
           : t \in ServiceTitles}

\* the calls of the root scraper's advance: how each attempt goes if it is made
NavigateCalls ==
    {[fn |-> "_navigate_to_next_video", retries |-> NavRetries, outs |-> o]
        : o \in [1..NavRetries -> NavOutcomes]}

\* the calls of the root scraper's recovery: what is_visible tells, whether
\* the control carries the disabled attribute, which the function does not
\* read, and how the click goes if it is made (click() on a disabled control
\* waits for it to be enabled and raises when its time is over)
RecoverCalls ==
    {c \in [fn : {"_try_recover_navigation"}, vis : {"visible", "hidden", "raises"},
            click : {"ok", "raises"}, disabled : {"no", "yes"}]
        : c.disabled = "yes" => c.click = "raises"}

AdvanceInit ==
    /\ PIdle
    /\ SIdle
    /\ fpc = "called"
    /\ call \in AdvanceCalls \cup NavigateCalls \cup RecoverCalls
    /\ ret = <<>>
    /\ pool = <<>>
    /\ files = <<>>

\* backend scraper.py 152-190
AdvanceReturn ==
    /\ fpc = "called"
    /\ call.fn = "_click_next_and_wait_for_change"
    /\ ret' = _click_next_and_wait_for_change(call.env, call.current_title)
    /\ fpc' = "returned"
    /\ UNCHANGED <<call, pool, files, pvars, svars>>

\* scraper.py 255-280
NavigateReturn ==
    /\ fpc = "called"
    /\ call.fn = "_navigate_to_next_video"
    /\ ret' = _navigate_to_next_video(call.outs, call.retries)
    /\ fpc' = "returned"
    /\ UNCHANGED <<call, pool, files, pvars, svars>>

\* scraper.py 282-292
RecoverReturn ==
    /\ fpc = "called"
    /\ call.fn = "_try_recover_navigation"
    /\ ret' = _try_recover_navigation(call.vis, call.click)
    /\ fpc' = "returned"
    /\ UNCHANGED <<call, pool, files, pvars, svars>>

\* ------------------------------- _get_music_title, _extract_song_title, one call
ExtractCalls ==
    {[fn |-> f, page |-> p] : f \in {"_get_music_title", "_extract_song_title"},
                               p \in Pages}

ExtractInit ==
    /\ PIdle
    /\ SIdle
    /\ fpc = "called"
    /\ call \in ExtractCalls
    /\ ret = <<>>
    /\ pool = <<>>
    /\ files = <<>>

\* backend scraper.py 139-150
ExtractReturn ==
    /\ fpc = "called"
    /\ call.fn = "_get_music_title"
    /\ ret' = _get_music_title(call.page)
    /\ fpc' = "returned"
    /\ UNCHANGED <<call, pool, files, pvars, svars>>

\* scraper.py 233-253
RootExtractReturn ==
    /\ fpc = "called"
    /\ call.fn = "_extract_song_title"
    /\ ret' = _extract_song_title(call.page)
    /\ fpc' = "returned"
    /\ UNCHANGED <<call, pool, files, pvars, svars>>

\* ------------------------------------------------ format_song_list, one call
MaxRecords == 2       \* longest list handed to format_song_list

\* a key the dict does not hold (a title-valued key; any other key)
AbsentTitle == <<"(absent)">>
Absent == "(absent)"

\* an item of processed_results with the keys format_song_list reads; values
\* are "true", "false", "None" (null), a text, or absent
FRec(kind, real, song, title, artist, remix, cover, conf) ==
    [kind |-> kind, is_real_song |-> real, song_name |-> song,
     original_title |-> title, artist |-> artist, is_remix |-> remix,
     is_cover |-> cover, confidence |-> conf]

\* a record of process_songs as format_song_list reads it
AsRecord(item) ==
    FRec(item.kind, item.is_real_song, AbsentTitle,
         IF item = EmptyDict THEN AbsentTitle ELSE item.original_title,
         Absent, Absent, Absent, Absent)

\* the items: real songs (plain, remix and cover, cover, remix, keys missing, null
\* song name, is_real_song a non-empty text), a user original, the two
\* placeholders, an empty dict, and a string left by a malformed response
FormatRecords ==
    {FRec("dict", "true", <<"s">>, <<"a">>, "The Weeknd", "false", "false", "high"),
     FRec("dict", "true", <<"s">>, <<"b">>, "x", "true", "true", "low"),
     FRec("dict", "true", <<"s">>, <<"c">>, "x", "false", "true", "medium"),
     FRec("dict", "true", <<"s">>, <<"j">>, "x", "true", "false", "high"),
     FRec("dict", "true", AbsentTitle, <<"d">>, Absent, Absent, Absent, Absent),
     FRec("dict", "true", None, <<"e">>, "None", "None", "None", "None"),
     FRec("dict", "text", <<"s">>, <<"f">>, "x", "false", "false", "high"),
     FRec("dict", "false", None, <<"g">>, "None", "false", "false", "high"),
     AsRecord(ErrorPlaceholder(<<"h">>, "429 RESOURCE_EXHAUSTED")),
     AsRecord(ParsePlaceholder(<<"i">>)),
     AsRecord(EmptyDict),
     AsRecord(StrItem)}

\* r.get(key, default), and r.get of a title-valued key
GetOr(v, default) == IF v = Absent THEN default ELSE v
GetTitle(v) == IF v = AbsentTitle THEN None ELSE v
GetTitleOr(v, default) == IF v = AbsentTitle THEN default ELSE v

RealUnlessFalse(v) == v # "false"
\* the truth of a value in an if: None, False and a missing key are false
IsTrue(v) == v \notin {"false", "None", Absent}

CoverFirst(is_remix, is_cover) ==
    IF IsTrue(is_cover) THEN "cover"
    ELSE IF IsTrue(is_remix) THEN "remix"
    ELSE "original"
\* processor.py 140-145: remix before cover before original
EntryType(is_remix, is_cover) ==
    IF IsTrue(is_remix) THEN "remix"
    ELSE IF IsTrue(is_cover) THEN "cover"
    ELSE "original"

\* processor.py 136-147: the entry of a real song
SongEntry(r) ==
    [song |-> GetTitleOr(r.song_name, GetTitle(r.original_title)),
     artist |-> GetOr(r.artist, "Unknown"),
     type |-> EntryType(r.is_remix, r.is_cover),
     confidence |-> GetOr(r.confidence, "unknown"),
     tiktok_title |-> GetTitle(r.original_title)]

\* processor.py 151-156: the stub of a record that is no real song
StubEntry(r) ==
    [song |-> None, artist |-> "None", type |-> "user_original",
     confidence |-> Absent, tiktok_title |-> GetTitle(r.original_title)]

\* what format_song_list gives: the list, or the exception it raises
Formatted(entries, exc) == [entries |-> entries, exc |-> exc]

\* processor.py 130-159, from the j-th item on, `formatted` being the list so far
RECURSIVE FormatFrom(_, _, _, _)
FormatFrom(results, j, include_originals, formatted) ==
    IF j > Len(results) THEN Formatted(formatted, NoExc)
    ELSE LET r == results[j]
         IN  IF r.kind # "dict"
             THEN Formatted(formatted,
                            Exc("AttributeError", "'str' object has no attribute 'get'"))
             ELSE IF IsTrue(r.is_real_song)
             THEN FormatFrom(results, j + 1, include_originals,
                             Append(formatted, SongEntry(r)))
             ELSE IF include_originals
             THEN FormatFrom(results, j + 1, include_originals,
                             Append(formatted, StubEntry(r)))
             ELSE FormatFrom(results, j + 1, include_originals, formatted)

format_song_list(processed_results, include_originals) ==
    FormatFrom(processed_results, 1, include_originals, <<>>)

FormatCalls ==
    {[fn |-> "format_song_list", processed_results |-> rs, include_originals |-> inc]
        : rs \in SeqsUpTo(FormatRecords, MaxRecords), inc \in BOOLEAN}

FormatInit ==
    /\ PIdle
    /\ SIdle
    /\ fpc = "called"
    /\ call \in FormatCalls
    /\ ret = <<>>
    /\ pool = <<>>
    /\ files = <<>>

\* processor.py 130-159
FormatReturn ==
    /\ fpc = "called"
    /\ call.fn = "format_song_list"
    /\ ret' = format_song_list(call.processed_results, call.include_originals)
    /\ fpc' = "returned"
    /\ UNCHANGED <<call, pool, files, pvars, svars>>

\* ------------------------------------------- scrape_profile, one request
\* str.lstrip("@")
RECURSIVE LStripAt(_)
LStripAt(t) == IF t # <<>> /\ t[1] = "@" THEN LStripAt(Tail(t)) ELSE t

\* str.replace("_", "").replace(".", "")
Replaced(t) == SelectSeq(t, LAMBDA ch : ch \notin {"_", "."})

\* str.isalnum(): at least one character, every one a letter or a digit
IsAlnum(t) == t # <<>> /\ \A j \in 1..Len(t) : t[j] \in {"a", "b", "1"}

\* main.py 89: request.username.strip().lstrip("@")
Username(raw) == LStripAt(Strip(raw))

\* the usernames of the requests: blank, a lone @, a lone underscore, with a
\* space inside, with a character TikTok does not allow, and a good one
\* written with white space and @ in front
Usernames ==
    {<<>>, <<" ">>, <<"@">>, <<"_">>, <<"a", " ", "b">>, <<"a", "!">>,
     <<" ", "@", "a", "_", "1">>}

\* main.py 91-95: the detail of the 400 response, or "ok"
Validation(username) ==
    IF username = <<>> THEN "Username cannot be empty"
    ELSE IF ~IsAlnum(Replaced(username)) THEN "Invalid username format"
    ELSE "ok"

\* what the handler gives back: a ScrapeResponse, or an HTTPException that
\* the framework turns into an error response with that status
ScrapeResponse(titles, processed, entries, message) ==
    [kind |-> "ScrapeResponse", status |-> 200, raw_titles |-> titles,
     processed |-> processed, processed_songs |-> entries, message |-> message]
HTTPException(status_code, detail) ==
    [kind |-> "HTTPException", status |-> status_code, raw_titles |-> <<>>,
     processed |-> FALSE, processed_songs |-> <<>>, message |-> detail]

\* schemas.py 30-36: SongResult takes the entry; tiktok_title must be a string
ValidSongResult(entry) == entry.tiktok_title # None

\* main.py 61: the results of process_songs as format_song_list reads them
AsRecords(results) == [j \in 1..Len(results) |-> AsRecord(results[j])]

\* a request and the environment it is served in (main.py 118:
\* os.getenv("GEMINI_API_KEY") is set or not)
ServeCalls ==
    {[fn |-> "scrape_profile", username |-> u, process_with_ai |-> ai,
      gemini_api_key |-> key]
        : u \in Usernames, ai \in BOOLEAN, key \in BOOLEAN}

\* a request has arrived; no scraper and no processor exist yet.  The
\* defaults of scrape_songs (1000 videos) and process_songs (20 titles a
\* batch) are scaled down: MaxVideos videos, and a batch size up to MaxBatch,
\* so that the titles of a profile make one batch or several.
ServeStart(cap) ==
    /\ fpc = "received"
    /\ call \in ServeCalls
    /\ ret = <<>>
    /\ pool = <<>>
    /\ files = <<>>
    /\ impl \in {"service", "root"}
    /\ max_videos = cap
    /\ songs = <<>>
    /\ spc = "off"
    /\ song_titles = {}
    /\ video_count = 0
    /\ current_title = None
    /\ closed = <<>>
    /\ diag = <<>>
    /\ clicks = 0
    /\ click_calls = 0
    /\ observed = <<>>
    /\ faults = {}
    /\ songs_at_fault = <<>>
    /\ last_advance = "none"
    /\ loads = 0
    /\ first_clicks = 0
    /\ trace = <<>>
    /\ raw_titles = <<>>
    /\ batch_size \in 1..MaxBatch
    /\ i = 0
    /\ all_results = <<>>
    /\ ppc = "off"
    /\ inflight = 0
    /\ sent = <<>>
    /\ prov = <<>>
    /\ outcome = <<>>
    /\ events = <<>>

ServeInit == ServeStart(MaxVideos)

\* main.py 89-100, 50-53: the username is normalised and tested; a good one
\* has run_scraper make a TikTokScraper and call scrape_songs
Validate ==
    /\ fpc = "received"
    /\ LET detail == Validation(Username(call.username))
       IN  IF detail = "ok"
           THEN /\ fpc' = "scraping"
                /\ spc' = "idle"
                /\ ret' = ret
           ELSE /\ fpc' = "responded"
                /\ spc' = spc
                /\ ret' = HTTPException(400, detail)
    /\ UNCHANGED <<call, pool, files, pvars>>
    /\ UNCHANGED <<impl, max_videos, songs, song_titles, video_count, current_title,
                   closed, diag, clicks, click_calls, observed, faults, songs_at_fault,
                   last_advance, loads, first_clicks, trace>>

\* main.py 54, 100-126, 140-155: run_scraper has ended.  Its exception becomes
\* a 500; an empty list is answered at once; else the titles are answered, or
\* handed to run_processor when the request asks for it and the key is set
ScraperDone ==
    /\ fpc = "scraping"
    /\ spc \in {"returned", "propagated"}
    /\ LET key == call.gemini_api_key
       IN IF spc = "propagated"
          THEN /\ ret' = HTTPException(500, "An error occurred while scraping")
               /\ fpc' = "responded"
               /\ UNCHANGED <<raw_titles, ppc>>
          ELSE IF songs = <<>>
          THEN /\ ret' = ScrapeResponse(<<>>, FALSE, <<>>, "No videos found")
               /\ fpc' = "responded"
               /\ UNCHANGED <<raw_titles, ppc>>
          ELSE IF call.process_with_ai /\ key
          THEN /\ ret' = ret
               /\ fpc' = "processing"
               /\ raw_titles' = songs
               /\ ppc' = "loop"
          ELSE /\ ret' = ScrapeResponse(songs, FALSE, <<>>, "Successfully scraped")
               /\ fpc' = "responded"
               /\ UNCHANGED <<raw_titles, ppc>>
    /\ spc' = "off"
    /\ UNCHANGED <<call, pool, files, batch_size, i, all_results, inflight, sent, prov, outcome, events>>
    /\ UNCHANGED <<impl, max_videos, songs>>
    \* the scraper object is dropped: of its call only the titles and the
    \* exception that left it are kept
    /\ faults' = IF spc = "propagated" THEN faults ELSE {}
    /\ song_titles' = {}
    /\ video_count' = 0
    /\ current_title' = None
    /\ closed' = <<>>
    /\ diag' = <<>>
    /\ clicks' = 0
    /\ click_calls' = 0
    /\ observed' = <<>>
    /\ songs_at_fault' = <<>>
    /\ last_advance' = "none"
    /\ loads' = 0
    /\ first_clicks' = 0
    /\ trace' = <<>>

\* main.py 61, 121-155: process_songs has ended; run_processor formats its
\* results, the handler makes a SongResult of every entry and answers.  An
\* exception of any of these becomes a 500
ProcessorDone ==
    /\ fpc = "processing"
    /\ ppc \in {"done", "raised"}
    /\ LET formatted == format_song_list(AsRecords(all_results), FALSE)
       IN  ret' =
              IF ppc = "raised" \/ formatted.exc # NoExc
                 \/ \E j \in 1..Len(formatted.entries) :
                        ~ValidSongResult(formatted.entries[j])
              THEN HTTPException(500, "An error occurred while scraping")
              ELSE ScrapeResponse(raw_titles, TRUE, formatted.entries,
                                  IF formatted.entries # <<>>
                                  THEN "Successfully scraped and identified"
                                  ELSE "Successfully scraped")
    /\ fpc' = "responded"
    /\ ppc' = "off"
    /\ UNCHANGED <<call, pool, files, svars>>
    /\ UNCHANGED <<raw_titles, batch_size, i, all_results, inflight, sent, prov,
                   outcome, events>>

\* --------------------------------------- main, the command-line front ends
\* cli.py 101: args.profile or os.getenv("PROFILE"), <<>> when neither is
\* set: nothing, a name written with its @, and a good one
Profiles == {<<>>, <<"@", "a">>, <<"a", "_", "1">>}

\* raw_songs.json as an earlier run left it: not there, or a list of titles
NoFile == [there |-> FALSE, titles |-> <<>>]
RawFiles == {NoFile} \cup {[there |-> TRUE, titles |-> InputTitles(n)] : n \in 0..1}

\* one run of main: its arguments and its environment
CliCalls ==
    {[fn |-> "main", scrape_only |-> so, process_only |-> po, profile |-> u,
      gemini_api_key |-> key, raw_songs |-> f]
        : so \in BOOLEAN, po \in BOOLEAN, u \in Profiles, key \in BOOLEAN,
          f \in RawFiles}

\* how a run of main ends: a return of main with what it printed last, or an
\* exception that left it
Exit(how) == [kind |-> "exit", how |-> how]

\* a file written by json.dump
File(name, content) == [name |-> name, content |-> content]

\* main has been called (cli.py with the backend scraper, main.py with the
\* root scraper); no scraper and no processor exist yet.  The defaults of
\* scrape_songs (1000 videos) and process_songs (20 titles a batch) are
\* scaled down as for the service.
CliInit ==
    /\ fpc = "main"
    /\ call \in CliCalls
    /\ (~call.process_only) => call.raw_songs = NoFile
    /\ ret = <<>>
    /\ pool = <<>>
    /\ files = <<>>
    /\ impl \in {"service", "root"}
    /\ max_videos = LiveVideos
    /\ songs = <<>>
    /\ spc = "off"
    /\ song_titles = {}
    /\ video_count = 0
    /\ current_title = None
    /\ closed = <<>>
    /\ diag = <<>>
    /\ clicks = 0
    /\ click_calls = 0
    /\ observed = <<>>
    /\ faults = {}
    /\ songs_at_fault = <<>>
    /\ last_advance = "none"
    /\ loads = 0
    /\ first_clicks = 0
    /\ trace = <<>>
    /\ raw_titles = <<>>
    /\ batch_size \in 1..MaxBatch
    /\ i = 0
    /\ all_results = <<>>
    /\ ppc = "off"
    /\ inflight = 0
    /\ sent = <<>>
    /\ prov = <<>>
    /\ outcome = <<>>
    /\ events = <<>>

\* main.py 52, cli.py 35: the username TikTokScraper is made with
ScraperUsername ==
    IF call.fn = "scrape_profile" THEN Username(call.username) ELSE call.profile

ProcessUnlessScrapeOnly(scrape_only, key, titles) == ~scrape_only
\* cli.py 124-139: process_with_ai is reached when --scrape-only is not set,
\* the key is set and there are titles
ReachesProcessing(scrape_only, key, titles) ==
    ~scrape_only /\ key /\ titles # <<>>

\* cli.py 124-139, 49-51: with the titles in hand main returns, or has
\* process_with_ai make a SongProcessor and call process_songs
Proceed(titles) ==
    /\ raw_titles' = titles
    /\ IF ReachesProcessing(call.scrape_only, call.gemini_api_key, titles)
       THEN fpc' = "process_with_ai" /\ ppc' = "loop" /\ ret' = ret
       ELSE /\ fpc' = "exited"
            /\ ppc' = ppc
            /\ ret' = Exit(IF call.scrape_only THEN "scrape_only"
                           ELSE IF ~call.gemini_api_key THEN "no_key"
                           ELSE "nothing")

\* cli.py 98-122, 32-35: the configuration is tested; a run that is to scrape
\* has scrape_tiktok make a TikTokScraper and call scrape_songs, a
\* --process-only run reads raw_songs.json
CliStart ==
    /\ fpc = "main"
    /\ IF ~call.process_only /\ call.profile = <<>>
       THEN /\ fpc' = "exited"
            /\ ret' = Exit("no_profile")
            /\ UNCHANGED <<spc, raw_titles, ppc>>
       ELSE IF ~call.process_only
       THEN /\ fpc' = "scrape_tiktok"
            /\ spc' = "idle"
            /\ UNCHANGED <<ret, raw_titles, ppc>>
       ELSE IF ~call.raw_songs.there
       THEN /\ fpc' = "exited"
            /\ ret' = Exit("not_found")
            /\ UNCHANGED <<spc, raw_titles, ppc>>
       ELSE /\ Proceed(call.raw_songs.titles)
            /\ spc' = spc
    /\ UNCHANGED <<call, pool, files, batch_size, i, all_results, inflight, sent, prov,
                   outcome, events>>
    /\ UNCHANGED <<impl, max_videos, songs, song_titles, video_count, current_title,
                   closed, diag, clicks, click_calls, observed, faults, songs_at_fault,
                   last_advance, loads, first_clicks, trace>>

SavedAfterProcessing(written, titles) == written
\* cli.py 36-39: scraper.save_to_json(get_output_path("raw_songs.json")),
\* before scrape_tiktok returns
SavedOnReturn(written, titles) == Append(written, File("raw_songs.json", titles))

\* cli.py 36-39, 113, 124-139: scrape_songs has ended.  Its exception leaves
\* main; else the titles are written to raw_songs.json and main goes on
CliScraped ==
    /\ fpc = "scrape_tiktok"
    /\ spc \in {"returned", "propagated"}
    /\ IF spc = "propagated"
       THEN /\ fpc' = "raised"
            /\ ret' = Exit("raised")
            /\ UNCHANGED <<files, raw_titles, ppc>>
       ELSE /\ files' = SavedOnReturn(files, songs)
            /\ Proceed(songs)
    /\ spc' = "off"
    /\ UNCHANGED <<call, pool, batch_size, i, all_results, inflight, sent, prov, outcome, events>>
    /\ UNCHANGED <<impl, max_videos, songs>>
    \* the scraper object is dropped: of its call only the titles and the
    \* exception that left it are kept
    /\ faults' = IF spc = "propagated" THEN faults ELSE {}
    /\ song_titles' = {}
    /\ video_count' = 0
    /\ current_title' = None
    /\ closed' = <<>>
    /\ diag' = <<>>
    /\ clicks' = 0
    /\ click_calls' = 0
    /\ observed' = <<>>
    /\ songs_at_fault' = <<>>
    /\ last_advance' = "none"
    /\ loads' = 0
    /\ first_clicks' = 0
    /\ trace' = <<>>

\* cli.py 52-57, 138-139: process_songs has ended; its results are written to
\* processed_songs.json, the formatted entries to songs.json, and the summary
\* is printed.  An exception of any of these leaves main
CliProcessed ==
    /\ fpc = "process_with_ai"
    /\ ppc \in {"done", "raised"}
    /\ LET formatted == format_song_list(AsRecords(all_results), FALSE)
       IN  IF ppc = "raised"
           THEN fpc' = "raised" /\ ret' = Exit("raised") /\ files' = files
           ELSE IF formatted.exc # NoExc
           THEN /\ fpc' = "raised"
                /\ ret' = Exit("raised")
                /\ files' = Append(files, File("processed_songs.json", all_results))
           ELSE /\ fpc' = "exited"
                /\ ret' = Exit("summary")
                /\ files' = files \o <<File("processed_songs.json", all_results),
                                       File("songs.json", formatted.entries)>>
    /\ ppc' = "off"
    /\ UNCHANGED <<call, pool, svars>>
    /\ UNCHANGED <<raw_titles, batch_size, i, all_results, inflight, sent, prov,
                   outcome, events>>

\* ------------------------------------------- the service under several requests
\* main.py 20: ThreadPoolExecutor(max_workers=2)
Workers == 2
MaxRequests == 3      \* /scrape requests
JobVideos == 1        \* videos a scrape job reads

Requests == 1..MaxRequests

\* a job handed to the executor: run_scraper or run_processor of a request,
\* the scraper object it works on and the videos it has read
Job(req, fn, obj, count) == [req |-> req, fn |-> fn, obj |-> obj, count |-> count]

\* a title as a browser session shows it
Seen(session) == [session |-> session, text |-> "a"]

SharedScraper(req) == 1
\* main.py 52: scraper = TikTokScraper(username), an object of the job's own
NewScraper(req) == req

RunsInline(req) == req
\* main.py 100, 121: await loop.run_in_executor(...) gives the event loop
\* back (0: the loop is free) while the job runs in a pool thread
AfterSubmit(req) == 0

\* the service has started; every request is yet to arrive
PoolInit ==
    /\ PIdle
    /\ SIdle
    /\ fpc = "idle"
    /\ call = <<>>
    /\ ret = <<>>
    /\ files = <<>>
    /\ pool = [handlers |-> [r \in Requests |-> "new"],
               loop     |-> 0,
               queue    |-> <<>>,
               running  |-> {},
               songs    |-> [o \in Requests |-> <<>>],
               raw      |-> [r \in Requests |-> <<>>],
               answers  |-> [r \in Requests |-> <<>>],
               waited   |-> {},
               health   |-> [st |-> "none", during |-> 0]]

PoolIdle == UNCHANGED <<pvars, svars, fpc, call, ret, files>>

\* main.py 77-100: a /scrape request arrives; its handler submits run_scraper
\* to the executor and awaits it
SubmitScrape ==
    \E r \in Requests :
    /\ pool.handlers[r] = "new"
    /\ pool.loop = 0
    /\ pool' = [pool EXCEPT !.handlers[r] = "scrape_wait",
                            !.queue = Append(@, Job(r, "run_scraper", NewScraper(r), 0)),
                            !.loop = AfterSubmit(r)]
    /\ PoolIdle

\* ThreadPoolExecutor: a job leaves the queue when fewer than max_workers
\* jobs are running.  A job that finds every worker busy has waited
StartJob ==
    /\ pool.queue # <<>>
    /\ Cardinality(pool.running) < Workers
    /\ pool' = [pool EXCEPT !.queue = Tail(@),
                            !.running = @ \cup {Head(pool.queue)}]
    /\ PoolIdle

\* ThreadPoolExecutor: the job at the head of the queue finds no free worker
JobWaits ==
    /\ pool.queue # <<>>
    /\ Cardinality(pool.running) >= Workers
    /\ \A w \in pool.waited : w.job # Head(pool.queue)
    /\ pool' = [pool EXCEPT !.waited = @ \cup {[job  |-> Head(pool.queue),
                                                 busy |-> Cardinality(pool.running)]}]
    /\ PoolIdle

\* main.py 53, scraper.py 236-246: a scrape job reads a title in its own
\* browser session and appends it to the songs of its scraper object
Observe ==
    \E j \in pool.running :
    /\ j.fn = "run_scraper"
    /\ j.count < JobVideos
    /\ LET title == Seen(j.req)
           songs_ == pool.songs[j.obj]
       IN  pool' = [pool EXCEPT
                       !.songs[j.obj] = IF \E k \in 1..Len(songs_) : songs_[k] = title
                                        THEN songs_ ELSE Append(songs_, title),
                       !.running = (@ \ {j}) \cup {Job(j.req, j.fn, j.obj, j.count + 1)}]
    /\ PoolIdle

\* main.py 54, 100-126, 140-149: run_scraper returns scraper.songs and the
\* handler goes on: it answers, or submits run_processor and awaits it
ScrapeJobDone ==
    \E j \in pool.running :
    /\ j.fn = "run_scraper"
    /\ pool.loop \in {0, j.req}
    /\ LET raw_titles_ == pool.songs[j.obj]
       IN  \E ai \in BOOLEAN :
              IF raw_titles_ # <<>> /\ ai
              THEN pool' = [pool EXCEPT
                              !.running = @ \ {j},
                              !.raw[j.req] = raw_titles_,
                              !.handlers[j.req] = "process_wait",
                              !.queue = Append(@, Job(j.req, "run_processor", 0, 0)),
                              !.loop = AfterSubmit(j.req)]
              ELSE pool' = [pool EXCEPT
                              !.running = @ \ {j},
                              !.raw[j.req] = raw_titles_,
                              !.handlers[j.req] = "responded",
                              !.answers[j.req] = raw_titles_,
                              !.loop = 0]
    /\ PoolIdle

\* main.py 61, 128-149: run_processor returns and the handler answers
ProcessJobDone ==
    \E j \in pool.running :
    /\ j.fn = "run_processor"
    /\ pool.loop \in {0, j.req}
    /\ pool' = [pool EXCEPT !.running = @ \ {j},
                            !.handlers[j.req] = "responded",
                            !.answers[j.req] = pool.raw[j.req],
                            !.loop = 0]
    /\ PoolIdle

\* a GET /health request arrives
HealthArrives ==
    /\ pool.health.st # "pending"
    /\ pool' = [pool EXCEPT !.health = [st |-> "pending", during |-> 0]]
    /\ PoolIdle

\* main.py 71-74: the event loop runs health_check
HealthAnswer ==
    /\ pool.health.st = "pending"
    /\ pool.loop = 0
    /\ pool' = [pool EXCEPT !.health = [st |-> "answered",
                                        during |-> Cardinality(pool.running)]]
    /\ PoolIdle

\* ------------------------------------------------------------ specifications
\* one call of process_songs
ProcessInit == PInit /\ SIdle /\ FIdle
ProcessNext == PNext
ProcessSpec == ProcessInit /\ [][ProcessNext]_vars

\* one call of scrape_songs on a new TikTokScraper
ScrapeInit == SInit /\ PIdle /\ FIdle
ScrapeNext == SNext
ScrapeSpec == ScrapeInit /\ [][ScrapeNext]_vars

\* scrape_songs calls one after the other, on the same object or on new ones
RescrapeInit == SInit /\ max_videos <= LiveVideos /\ PIdle /\ FIdle
RescrapeNext ==
    \/ Setup \/ LoadPage \/ DebugScreenshot \/ DebugHtml \/ ClickFirst \/ WaitViewer
    \/ FirstExtract \/ Record \/ Advance
    \/ RootRecord \/ RootNavigate \/ LoopBodyFault \/ RootRecover
    \/ LoopEnd \/ ErrorScreenshot \/ CloseContext \/ CloseBrowser
    \/ CallAgain \/ CallOnNew
RescrapeSpec == RescrapeInit /\ [][RescrapeNext]_vars

\* one call of _try_load_page
LoadNext == LoadReturn
LoadSpec == LoadInit /\ [][LoadNext]_vars

\* one call of an advance function
AdvanceNext == AdvanceReturn \/ NavigateReturn \/ RecoverReturn
AdvanceSpec == AdvanceInit /\ [][AdvanceNext]_vars

\* one call of _get_music_title
ExtractNext == ExtractReturn \/ RootExtractReturn
ExtractSpec == ExtractInit /\ [][ExtractNext]_vars

\* one call of format_song_list
FormatNext == FormatReturn
FormatSpec == FormatInit /\ [][FormatNext]_vars

\* one /scrape request, served by either service (backend/app/main.py with
\* the backend scraper, api/server.py with the root scraper)
ServeNext ==
    \/ Validate \/ ScraperDone \/ ProcessorDone
    \/ Setup \/ LoadPage \/ DebugScreenshot \/ DebugHtml \/ ClickFirst \/ WaitViewer
    \/ FirstExtract \/ Record \/ Advance
    \/ RootRecord \/ RootNavigate \/ LoopBodyFault \/ RootRecover
    \/ LoopEnd \/ ErrorScreenshot \/ CloseContext \/ CloseBrowser
    \/ StartBatch \/ Return \/ BackendRaises \/ BackendResponds \/ Sleep
ServeSpec == ServeInit /\ [][ServeNext]_vars

\* one call of scrape_songs (max_videos up to LiveVideos) or one call of
\* process_songs (up to LiveTitles titles), the call going on with its next
\* step while it has one
SOff ==
    /\ impl = "service"
    /\ max_videos = 0
    /\ songs = <<>>
    /\ spc = "off"
    /\ song_titles = {}
    /\ video_count = 0
    /\ current_title = None
    /\ closed = <<>>
    /\ diag = <<>>
    /\ clicks = 0
    /\ click_calls = 0
    /\ observed = <<>>
    /\ faults = {}
    /\ songs_at_fault = <<>>
    /\ last_advance = "none"
    /\ loads = 0
    /\ first_clicks = 0
    /\ trace = <<>>
CallInit ==
    \/ SInit /\ max_videos <= LiveVideos /\ PIdle /\ FIdle
    \/ PInit /\ Len(raw_titles) <= LiveTitles /\ SOff /\ FIdle
CallNext ==
    \/ Setup \/ LoadPage \/ DebugScreenshot \/ DebugHtml \/ ClickFirst \/ WaitViewer
    \/ FirstExtract \/ Record \/ Advance
    \/ RootRecord \/ RootNavigate \/ LoopBodyFault \/ RootRecover
    \/ LoopEnd \/ ErrorScreenshot \/ CloseContext \/ CloseBrowser
    \/ StartBatch \/ Return \/ BackendRaises \/ BackendResponds \/ Sleep
CallLiveSpec == CallInit /\ [][CallNext]_vars /\ WF_vars(CallNext)

\* one run of a front end: a /scrape request to a service, or a run of main
\* from the command line
EntryInit == ServeStart(LiveVideos) \/ CliInit
EntryNext ==
    \/ Validate \/ ScraperDone \/ ProcessorDone
    \/ CliStart \/ CliScraped \/ CliProcessed
    \/ Setup \/ LoadPage \/ DebugScreenshot \/ DebugHtml \/ ClickFirst \/ WaitViewer
    \/ FirstExtract \/ Record \/ Advance
    \/ RootRecord \/ RootNavigate \/ LoopBodyFault \/ RootRecover
    \/ LoopEnd \/ ErrorScreenshot \/ CloseContext \/ CloseBrowser
    \/ StartBatch \/ Return \/ BackendRaises \/ BackendResponds \/ Sleep
EntrySpec == EntryInit /\ [][EntryNext]_vars

\* the service with its requests
PoolNext ==
    \/ SubmitScrape
    \/ StartJob
    \/ JobWaits
    \/ Observe
    \/ ScrapeJobDone
    \/ ProcessJobDone
    \/ HealthArrives
    \/ HealthAnswer
PoolSpec == PoolInit /\ [][PoolNext]_vars

\* one call of _process_batch
ParseNext == ParseReturn
ParseSpec == ParseInit /\ [][ParseNext]_vars

\* ================================================================== claims
CeilDiv(n, b) == (n + b - 1) \div b

\* the items of all_results that batch k put there, in order
BatchItems(k) ==
    LET idx == {j \in 1..Len(prov) : prov[j].batch = k}
    IN  [m \in 1..Cardinality(idx) |->
            all_results[CHOOSE j \in idx : Cardinality({x \in idx : x < j}) = m - 1]]

\* C1: whatever the backend does on each batch, process_songs returns exactly
\* len(raw_titles) records, the records of batch k before those of batch k+1.
C1_OneRecordPerTitle ==
    ppc = "done" =>
        /\ Len(all_results) = Len(raw_titles)
        /\ \A j \in 1..(Len(prov) - 1) : prov[j].batch <= prov[j + 1].batch

\* ----------------------------------------------------------- C2 to C5
IsPrefix(s, t) == Len(s) <= Len(t) /\ \A j \in 1..Len(s) : s[j] = t[j]

\* a string with no white space at either end
Trimmed(t) == t = <<>> \/ (t[1] # " " /\ t[Len(t)] # " ")

\* s without the elements that occurred earlier in it
RECURSIVE FirstSeen(_)
FirstSeen(s) ==
    IF s = <<>> THEN <<>>
    ELSE LET init == FirstSeen(SubSeq(s, 1, Len(s) - 1))
             last == s[Len(s)]
         IN  IF \E j \in 1..Len(init) : init[j] = last THEN init
             ELSE Append(init, last)

\* the titles read so far, trimmed, without the reads that gave nothing
ObservedSongs ==
    LET trimmed == [j \in 1..Len(observed) |->
                       IF observed[j] = None THEN <<>>
                       ELSE RStrip(LStrip(observed[j]))]
    IN  SelectSeq(trimmed, LAMBDA t : t # <<>>)

\* C2: within one scrape_songs call self.songs holds no string twice, lists
\* the titles in the order they were first observed, and every entry is a
\* non-empty string equal to its own trimmed form.
C2_UniqueFirstSeenTrimmed ==
    /\ \A j, k \in 1..Len(songs) : j # k => songs[j] # songs[k]
    /\ songs = FirstSeen(ObservedSongs)
    /\ \A j \in 1..Len(songs) :
          songs[j] # <<>> /\ songs[j] # None /\ Trimmed(songs[j])

\* three videos read, the third with the title of the first (once with white
\* space around it), two titles kept
C2_Witness ==
    /\ Len(observed) = 3
    /\ observed[1] # None
    /\ observed[3] # None
    /\ RStrip(LStrip(observed[3])) = RStrip(LStrip(observed[1]))
    /\ Len(songs) = 2
    /\ songs[1] = <<"a">>

ErrorShots == Cardinality({j \in 1..Len(diag) : diag[j][1] = "error_screenshot.png"})

OuterFaults ==
    {"diag", "first_click", "viewer"}
    \cup (IF impl = "service" THEN {"loop_body"} ELSE {})
\* the exceptions raised after the first video was clicked
FaultsAfterFirstClick == {"viewer", "extract", "advance", "loop_body"}

C6_RaisedBatchPlaceholders ==
    \A k \in 1..Len(outcome) :
        outcome[k] = "raised" =>
            /\ \E e \in BackendErrors :
                  BatchItems(k) =
                      [j \in 1..Len(sent[k]) |->
                          [kind |-> "dict", original_title |-> sent[k][j],
                           is_real_song |-> "None", error |-> e.msg,
                           parse_error |-> FALSE]]
            /\ ppc # "raised"
            /\ k < Len(sent) =>
                  sent[k + 1] = Slice(raw_titles, k * batch_size, (k + 1) * batch_size)
            /\ (k = Len(sent) /\ ppc = "loop") => i = k * batch_size

C6_Witness ==
    /\ Len(outcome) >= 2
    /\ outcome[1] = "raised"
    /\ outcome[2] = "parsed"
    /\ Len(sent[1]) = 2
    /\ Len(BatchItems(2)) = 1

\* C7: a batch whose response text is not an array of records (malformed JSON,
\* or valid JSON of another shape) yields exactly one record per title, in
\* batch order, with is_real_song None and the parse_error marker.
C7_UnparsableBatchPlaceholders ==
    \A k \in 1..Len(outcome) :
        outcome[k] \in {"parse_error", "not_records"} =>
            BatchItems(k) =
                [j \in 1..Len(sent[k]) |->
                    [kind |-> "dict", original_title |-> sent[k][j],
                     is_real_song |-> "None", error |-> NoError,
                     parse_error |-> TRUE]]

\* C8: process_songs never raises, attempts every batch and issues exactly one
\* request per batch, ceil(n/b) in all, whatever fails.
C8_NeverRaisesOneRequestPerBatch ==
    /\ ppc # "raised"
    /\ Cardinality({j \in 1..Len(events) : events[j] = "req"}) = Len(sent)
    /\ Len(sent) <= CeilDiv(Len(raw_titles), batch_size)
    /\ ppc = "done" =>
          /\ Len(sent) = CeilDiv(Len(raw_titles), batch_size)
          /\ Len(outcome) = Len(sent)

C8_Witness ==
    /\ ppc = "done"
    /\ Len(outcome) = 3
    /\ outcome[1] = "raised"
    /\ outcome[2] = "parse_error"
    /\ outcome[3] = "not_records"

\* C9: the batches are ceil(n/b), each but the last of exactly b titles, none
\* empty, and their concatenation in processing order is the input.
C9_BatchPartition ==
    /\ \A k \in 1..Len(sent) : sent[k] # <<>> /\ Len(sent[k]) <= batch_size
    /\ \A k \in 1..(Len(sent) - 1) : Len(sent[k]) = batch_size
    /\ Len(Flatten(sent)) <= Len(raw_titles)
    /\ \A j \in 1..Len(Flatten(sent)) : Flatten(sent)[j] = raw_titles[j]
    /\ ppc = "done" =>
          /\ Len(sent) = CeilDiv(Len(raw_titles), batch_size)
          /\ Flatten(sent) = raw_titles

C9_Witness ==
    /\ ppc = "done"
    /\ Len(raw_titles) = 3
    /\ batch_size = 2
    /\ Len(sent) = 2
    /\ Len(sent[2]) = 1

\* C10: at most one request is in flight, and the request of a batch is issued
\* only when every earlier request has ended and its records are in the output.
C10_OneRequestAtATime ==
    /\ inflight \in {0, 1}
    /\ inflight = Len(sent) - Len(outcome)
    /\ (ppc = "request") <=> (inflight = 1)
    /\ \A j \in 1..Len(prov) : prov[j].batch <= Len(outcome)
    /\ \A k \in 1..Len(outcome) :
          outcome[k] \in {"raised", "parse_error"} => Len(BatchItems(k)) = Len(sent[k])

C10_Witness ==
    /\ ppc = "request"
    /\ Len(sent) = 2
    /\ Len(outcome) = 1
    /\ Len(BatchItems(1)) >= 1

\* the number of events of a kind
EventCount(kind) == Cardinality({j \in 1..Len(events) : events[j] = kind})

\* C11: between every two consecutive backend requests exactly one inter-batch
\* delay occurs, whatever the outcome of the earlier batch, and none occurs
\* after the final batch: a run with m batches performs m - 1 delays.
C11_OneDelayBetweenRequests ==
    /\ \A j \in 2..Len(events) : events[j] = "req" <=> events[j - 1] = "sleep"
    /\ events # <<>> => events[1] = "req"
    /\ ppc = "done" =>
          /\ events # <<>> => events[Len(events)] = "req"
          /\ Len(sent) >= 1 => EventCount("sleep") = Len(sent) - 1


\* C12: for every response content, _process_batch returns the same output
\* whether the content arrives bare or wrapped in a fenced code block, also
\* when the closing fence is missing or shares a line with the content and
\* when the content spans several lines.
C12_FenceMakesNoDifference ==
    (fpc = "returned" /\ call.fn = "_process_batch") => ret.fenced = ret.bare

\* a fence closed on a line of its own makes no difference
FenceClosedMakesNoDifference ==
    (fpc = "returned" /\ call.fn = "_process_batch" /\ call.shape = "closed") =>
        ret.fenced = ret.bare

\* the first attempt that observes the grid marker, 0 if none does
FirstGrid(outs) ==
    IF \E k \in DOMAIN outs : outs[k] = "grid"
    THEN CHOOSE k \in DOMAIN outs :
            outs[k] = "grid" /\ \A j \in 1..(k - 1) : outs[j] # "grid"
    ELSE 0

LoaderReturned == fpc = "returned" /\ call.fn = "_try_load_page"

\* C13: if the grid marker is first observed on attempt k <= max_retries the
\* loader returns Success after exactly k navigations and k - 1 backoff waits;
\* if every attempt fails it returns Failure after max_retries navigations and
\* max_retries - 1 waits.
C13_NavigationsAndWaits ==
    LoaderReturned =>
        LET k == FirstGrid(call.outs)
        IN  IF k # 0
            THEN ret.ok /\ ret.navs = k /\ Len(ret.waits) = k - 1
            ELSE /\ ~ret.ok
                 /\ ret.navs = call.max_retries
                 /\ Len(ret.waits) = call.max_retries - 1

\* the grid wait fails on attempts 1 and 2 and succeeds on attempt 3
C13_Witness ==
    /\ LoaderReturned
    /\ call.outs = <<"slow", "soft_block", "grid">>
    /\ ret.ok
    /\ ret.navs = 3
    /\ Len(ret.waits) = 2

\* C14: the backoff wait after failed attempt i (i < max_retries) lasts i * 5
\* seconds, for every kind of failure: grid marker not observed, soft-block
\* page, or an error raised during navigation.
C14_LinearBackoff ==
    LoaderReturned => \A j \in 1..Len(ret.waits) : ret.waits[j] = j * 5

\* the waits after the attempts that raised nothing are linear
LinearBackoffWithoutErrors ==
    LoaderReturned =>
        \A j \in 1..Len(ret.waits) :
            call.outs[j] \notin Raising => ret.waits[j] = j * 5

\* the outcomes with every soft-block page replaced by a slow page
SlowFor(outs) == [j \in DOMAIN outs |-> IF outs[j] = "soft_block" THEN "slow" ELSE outs[j]]

\* C15: _try_load_page never propagates a driver exception: an error of the
\* navigation, of the grid wait or of reading the page content is one failed
\* attempt, the remaining attempts are still made, the loader returns Success
\* if and only if some attempt observed the grid marker, and a soft-block page
\* is retried as a slow page is.
C15_LoaderNeverRaises ==
    LoaderReturned =>
        /\ ~ret.raised
        /\ ret.ok <=> FirstGrid(call.outs) # 0
        /\ ret.navs = (IF ret.ok THEN FirstGrid(call.outs) ELSE call.max_retries)
        /\ ret = _try_load_page(SlowFor(call.outs), call.max_retries)

\* the navigation raises, then reading the content raises, then the grid shows
C15_Witness ==
    /\ LoaderReturned
    /\ call.outs = <<"goto_raises", "content_raises", "grid">>
    /\ ret.ok
    /\ ret.navs = 3

\* the loader gave up: the diagnostics of the exhausted loader were begun
LoadFailed == diag # <<>> /\ diag[1][1] = "debug_screenshot.png"

AdvanceReturned == fpc = "returned" /\ call.fn = "_click_next_and_wait_for_change"
NavigateReturned == fpc = "returned" /\ call.fn = "_navigate_to_next_video"

\* the attempt of _navigate_to_next_video that ends the call, 0 if none does
LastAttempt(outs) ==
    IF \E k \in DOMAIN outs : outs[k] \in {"disabled", "clicked"}
    THEN CHOOSE k \in DOMAIN outs :
            /\ outs[k] \in {"disabled", "clicked"}
            /\ \A j \in 1..(k - 1) : outs[j] \notin {"disabled", "clicked"}
    ELSE 0

\* C17: the advance returns (False, None) with no click whenever the next
\* control is visible but disabled and whenever it does not become visible
\* within the bounded poll, and it makes at most one click per call.
C17_NoClickWhenDisabledOrAbsent ==
    /\ AdvanceReturned =>
          /\ (call.env.visible_at \in 1..VisiblePolls /\ call.env.disabled = "yes") =>
                ret = Advanced(FALSE, None, 0, 0, FALSE, FALSE)
          /\ call.env.visible_at > VisiblePolls =>
                ret = Advanced(FALSE, None, 0, 0, FALSE, FALSE)
          /\ ret.calls <= 1
          /\ ret.clicks <= ret.calls
    /\ NavigateReturned =>
          /\ (LastAttempt(call.outs) # 0 /\ call.outs[LastAttempt(call.outs)] = "disabled") =>
                ~ret.ok /\ ret.clicks = 0
          /\ (\A k \in DOMAIN call.outs : call.outs[k] = "hidden") =>
                ret = Advanced(FALSE, None, 0, 0, FALSE, FALSE)
          /\ ret.clicks <= 1
          /\ ~ret.ok => ret.clicks = 0

\* the control is seen at the last poll and is disabled: no click
C17_Witness ==
    /\ AdvanceReturned
    /\ call.env.visible_at = VisiblePolls
    /\ call.env.disabled = "yes"
    /\ ~ret.ok
    /\ ret.calls = 0

\* the title polls that read a non-empty title other than the previous one
ChangedPolls ==
    {j \in 1..TitlePolls :
        LET t == ReadAt(call.env, j)
        IN  t # None /\ t # <<>> /\ t # call.current_title}

\* C18: after the next control was clicked the advance reports True: with the
\* first non-empty title different from the previous one read within the
\* bounded poll, else with the title readable after the polls (possibly the
\* previous one or none); a title that does not change never ends the loop.
C18_AdvancedAfterClick ==
    (AdvanceReturned /\ ret.clicks = 1) =>
        /\ ret.ok
        /\ AfterAdvance(ret.ok) = "loop"
        /\ IF ChangedPolls # {}
           THEN /\ \E j \in ChangedPolls :
                      /\ ret.title = ReadAt(call.env, j)
                      /\ \A k \in ChangedPolls : j <= k
                /\ ret.title # None
                /\ ret.title # call.current_title
           ELSE ret.title = call.env.final

\* the title stayed what it was through all the polls: advanced all the same
C18_Witness ==
    /\ AdvanceReturned
    /\ call.current_title = <<"a">>
    /\ call.env.stale = TitlePolls
    /\ call.env.old = <<"a">>
    /\ call.env.final = <<"a">>
    /\ ret.ok
    /\ ret.title = <<"a">>

\* the selectors that name a data attribute, and those that match a class name
DataAttributeSelectors ==
    {"a[data-e2e=browse-music]", "a[data-e2e=video-music]", "[data-e2e=browse-music-name]"}
ClassPatternSelectors == {"div[class*=DivMusicText]", "div[class*=MusicText]"}

\* the places in the chain whose element is visible with a text that is not
\* empty once trimmed
GoodPlaces(page) ==
    {j \in 1..Len(MUSIC_SELECTORS) :
        LET e == page[MUSIC_SELECTORS[j]]
        IN  e.st = "visible" /\ RStrip(LStrip(e.text)) # <<>>}

\* C19: the extractor tries its selectors in the chain's order, the data
\* attribute selectors before the class pattern selectors, and returns the
\* trimmed text of the first selector whose element is visible with a text
\* that is not empty once trimmed; a selector that is missing, invisible, empty
\* or raises is skipped, and the result is absent exactly when every selector
\* fails.
C19_FirstGoodSelector ==
    /\ \A j, k \in 1..Len(MUSIC_SELECTORS) :
          (MUSIC_SELECTORS[j] \in DataAttributeSelectors
           /\ MUSIC_SELECTORS[k] \in ClassPatternSelectors) => j < k
    /\ (fpc = "returned" /\ call.fn = "_get_music_title") =>
          LET good == GoodPlaces(call.page)
          IN  /\ ret = None <=> good = {}
              /\ good # {} =>
                    \E j \in good :
                       /\ \A k \in good : j <= k
                       /\ ret = RStrip(LStrip(call.page[MUSIC_SELECTORS[j]].text))

\* the first selector raises, the second finds nothing visible, the third a
\* blank text, the fourth a title with white space after it
C19_Witness ==
    /\ fpc = "returned"
    /\ call.fn = "_get_music_title"
    /\ call.page[MUSIC_SELECTORS[1]].st = "raises"
    /\ call.page[MUSIC_SELECTORS[2]].st = "hidden"
    /\ call.page[MUSIC_SELECTORS[3]] = Visible(<<" ">>)
    /\ call.page[MUSIC_SELECTORS[4]] = Visible(<<"a", " ">>)
    /\ ret = <<"a">>

FormatReturned == fpc = "returned" /\ call.fn = "format_song_list"

\* the values of is_real_song that count as true
RealValues == {"true", "text"}

\* the records among the items of a call
AllRecords == \A j \in 1..Len(call.processed_results) : call.processed_results[j].kind = "dict"

\* C20: format_song_list maps each record to zero or one entry, in the order
\* of the records: in default mode a record yields an entry if and only if its
\* is_real_song is truthy (false, unknown and every placeholder are omitted);
\* with include_originals each such record yields a stub of type
\* user_original, so that there is one entry per record.
C20_OneEntryPerRealSong ==
    (FormatReturned /\ AllRecords) =>
        LET rs   == call.processed_results
            real == SelectSeq(rs, LAMBDA r : r.is_real_song \in RealValues)
            out  == ret.entries
        IN  /\ ret.exc = NoExc
            /\ IF call.include_originals
               THEN /\ Len(out) = Len(rs)
                    /\ \A j \in 1..Len(rs) :
                          /\ out[j].tiktok_title = GetTitle(rs[j].original_title)
                          /\ out[j].type = "user_original"
                                <=> rs[j].is_real_song \notin RealValues
               ELSE /\ Len(out) = Len(real)
                    /\ \A j \in 1..Len(real) :
                          /\ out[j].tiktok_title = GetTitle(real[j].original_title)
                          /\ out[j].type # "user_original"

\* a placeholder and a real song, in default mode: one entry, the song's
C20_Witness ==
    /\ FormatReturned
    /\ ~call.include_originals
    /\ Len(call.processed_results) = 2
    /\ call.processed_results[1] = AsRecord(ParsePlaceholder(<<"i">>))
    /\ call.processed_results[2].original_title = <<"a">>
    /\ Len(ret.entries) = 1
    /\ ret.entries[1].tiktok_title = <<"a">>

\* the place in the output of the entry of the j-th item, a real song
EntryIndex(j) ==
    IF call.include_originals THEN j
    ELSE Cardinality({k \in 1..j : call.processed_results[k].is_real_song \in RealValues})

\* the items of the call that are real songs
RealPlaces ==
    {j \in 1..Len(call.processed_results) :
        call.processed_results[j].is_real_song \in RealValues}

\* the values of is_remix and is_cover that count as true
FlagSet == {"true", "text"}

\* C21: the entry of a real song has type remix when is_remix is truthy
\* (whatever is_cover is), cover when is_remix is falsy and is_cover truthy,
\* original otherwise, never user_original; its song is the record's
\* song_name and its tiktok_title the record's original_title.
C21_TypePrecedence ==
    (FormatReturned /\ AllRecords) =>
        \A j \in RealPlaces :
            LET r == call.processed_results[j]
                e == ret.entries[EntryIndex(j)]
            IN  /\ r.is_remix \in FlagSet => e.type = "remix"
                /\ (r.is_remix \notin FlagSet /\ r.is_cover \in FlagSet) => e.type = "cover"
                /\ (r.is_remix \notin FlagSet /\ r.is_cover \notin FlagSet) => e.type = "original"
                /\ e.type # "user_original"
                /\ r.song_name # AbsentTitle => e.song = r.song_name
                /\ r.original_title # AbsentTitle => e.tiktok_title = r.original_title

\* a remix that is also a cover, after a user original: its entry is a remix
C21_Witness ==
    /\ FormatReturned
    /\ Len(call.processed_results) = 2
    /\ call.processed_results[1].is_real_song = "false"
    /\ call.processed_results[2].is_remix = "true"
    /\ call.processed_results[2].is_cover = "true"
    /\ call.processed_results[2].is_real_song = "true"
    /\ ret.entries[EntryIndex(2)].type = "remix"
    /\ ret.entries[EntryIndex(2)].song = <<"s">>
    /\ ret.entries[EntryIndex(2)].tiktok_title = <<"b">>

\* C22: the entry of a real song whose artist is missing, the key absent or
\* its value null, has the artist "Unknown".
C22_MissingArtistIsUnknown ==
    (FormatReturned /\ AllRecords) =>
        \A j \in RealPlaces :
            call.processed_results[j].artist \in {Absent, "None"}
                => ret.entries[EntryIndex(j)].artist = "Unknown"

\* with the artist key absent the entry's artist is "Unknown"
AbsentArtistIsUnknown ==
    (FormatReturned /\ AllRecords) =>
        \A j \in RealPlaces :
            call.processed_results[j].artist = Absent
                => ret.entries[EntryIndex(j)].artist = "Unknown"

\* the places of the trace that hold one of the steps
Places(steps) == {k \in 1..Len(trace) : trace[k] \in steps}

\* C24: a failure of the browser launch, of the context or of the page is not
\* retried and leaves scrape_songs at once: no navigation, no diagnostic
\* capture and no title collection follows it.
C24_SetupFailurePropagates ==
    /\ Cardinality(Places({"launch", "launch_raised"})) <= 1
    /\ "setup" \in faults =>
          /\ trace = <<"launch_raised">>
          /\ spc = "propagated"
          /\ loads = 0
          /\ diag = <<>>
          /\ first_clicks = 0
          /\ clicks = 0
          /\ observed = <<>>
          /\ songs = <<>>

\* the launch failed and scrape_songs was left
C24_Witness ==
    /\ spc = "propagated"
    /\ faults = {"setup"}
    /\ trace = <<"launch_raised">>

Responded == fpc = "responded" /\ call.fn = "scrape_profile"

\* the username of the request is neither empty nor malformed
GoodUsername ==
    LET u == Username(call.username)
    IN  /\ \A j \in 1..Len(u) : u[j] \in {"a", "b", "1", "_", "."}
        /\ \E k \in 1..Len(u) : u[k] \notin {"_", "."}

\* C23: whatever goes wrong inside (browser launch, page load, loop, backend,
\* malformed backend records), a request with a valid username is answered
\* with a ScrapeResponse that carries a message; an error response is given
\* only to an empty or malformed username.
C23_FaultsGetResponse ==
    Responded =>
        /\ GoodUsername => ret.kind = "ScrapeResponse" /\ ret.message # ""
        /\ ret.kind = "HTTPException" => ~GoodUsername

\* with the browser launched and the backend not asked, the request is
\* answered with a ScrapeResponse whatever scrape_songs met
HandledFaultsGetResponse ==
    (Responded /\ GoodUsername /\ "setup" \notin faults /\ sent = <<>>)
        => ret.kind = "ScrapeResponse"

\* the requests that carry the title
RequestsWith(title) ==
    {k \in 1..Len(sent) : \E j \in 1..Len(sent[k]) : sent[k][j] = title}

\* C25: every input title is in at least one backend request, and a title
\* whose request failed is sent again in a later request.
C25_AtLeastOnceWithRetries ==
    ppc = "done" =>
        /\ \A j \in 1..Len(raw_titles) : RequestsWith(raw_titles[j]) # {}
        /\ \A k \in 1..Len(outcome) :
              outcome[k] = "raised" =>
                  \A j \in 1..Len(sent[k]) :
                      \E later \in RequestsWith(sent[k][j]) : later > k

\* every input title is in exactly one backend request, whatever failed
EveryTitleSentOnce ==
    ppc = "done" =>
        \A j \in 1..Len(raw_titles) : Cardinality(RequestsWith(raw_titles[j])) = 1

\* C26: every wait is bounded and every call ends: scrape_songs reaches its
\* return (session closed) or leaves with the launch failure, _try_load_page
\* makes at most max_retries attempts, an advance at most 50 visibility polls
\* and 20 title polls, and process_songs ends after its last batch.
C26_EveryCallTerminates ==
    /\ (spc = "idle") ~> (spc \in {"returned", "propagated"})
    /\ [](spc = "returned" => closed = <<"context", "browser">>)
    /\ [](video_count <= max_videos)
    /\ (ppc = "loop") ~> (ppc = "done")
    /\ [](ppc = "done" => i >= Len(raw_titles) /\ Len(sent) = CeilDiv(Len(raw_titles), batch_size))
    /\ [](spc = "load" => \A r \in LoadRuns : r.navs >= 1 /\ r.navs <= MaxRetries)
    /\ [](spc = "advance" =>
              \A env \in AdvanceEnvs(current_title) :
                  /\ VisibilityPollsMade(env) <= VisiblePolls
                  /\ TitlePollsMade(env, current_title) <= TitlePolls)

\* scrape_songs ran to the cap, kept two titles and closed the session
C26_Witness ==
    /\ spc = "returned"
    /\ video_count = LiveVideos
    /\ Len(songs) = 2
    /\ closed = <<"context", "browser">>

\* process_songs returned after two batches, the first of which failed
C26_WitnessProcessed ==
    /\ ppc = "done"
    /\ Len(sent) = 2
    /\ outcome[1] = "raised"

\* C27: whatever calls were made before, on the same object or another, the
\* title list of a scrape_songs call holds no title twice and only what the
\* call itself observed.
C27_NothingCarriedOver ==
    spc = "returned" =>
        /\ \A j, k \in 1..Len(songs) : j # k => songs[j] # songs[k]
        /\ songs = FirstSeen(ObservedSongs)

\* a call on a new TikTokScraper returns only what it observed, no title twice
NewObjectCarriesNothing ==
    (spc = "returned" /\ \A j \in 1..Len(trace) : trace[j] # "again") =>
        /\ \A j, k \in 1..Len(songs) : j # k => songs[j] # songs[k]
        /\ songs = FirstSeen(ObservedSongs)

\* the state of the run a step belongs to: 1 Loading, 2 Viewing, 3 Extracting
\* and Advancing, 4 the end (Done or Failed)
StateOf(step) ==
    CASE step \in {"launch", "launch_raised", "load_ok", "load_failed", "load_raised"} -> 1
      [] step \in {"click_first", "click_first_raised", "viewer", "viewer_raised"} -> 2
      [] step \in {"extract", "record", "advance", "loop_body_raised", "recover", "cap"} -> 3
      [] OTHER -> 4

\* C28: scrape_songs goes from loading to viewing to the loop of extracting
\* and advancing to its end and never back: the first video is clicked only
\* after the loader gave True, no title is read or recorded before the viewer
\* was seen, every advance comes after the record step of the current video,
\* and a failure of the viewer wait is caught, has the error screenshot taken
\* and ends the run with no title.
C28_OnlyForward ==
    /\ \A k \in 1..(Len(trace) - 1) : StateOf(trace[k]) <= StateOf(trace[k + 1])
    /\ \A k \in Places({"click_first", "click_first_raised"}) :
          k > 1 /\ trace[k - 1] = "load_ok"
    /\ \A k \in Places({"extract", "record"}) :
          \E j \in Places({"viewer"}) : j < k
    /\ \A k \in Places({"advance"}) : k > 1 /\ trace[k - 1] = "record"
    /\ \A k \in Places({"viewer_raised"}) :
          /\ "viewer" \in faults
          /\ songs = <<>> /\ observed = <<>> /\ clicks = 0
          /\ spc \in {"except", "finally", "finally_browser", "returned"}
          /\ k < Len(trace) => trace[k + 1] = "error_screenshot"
          /\ spc # "except" =>
                /\ Len(diag) = 1
                /\ diag[1][1] = "error_screenshot.png"
          /\ spc = "returned" =>
                trace = <<"launch", "load_ok", "click_first", "viewer_raised",
                          "error_screenshot", "close_context", "close_browser">>

\* the viewer did not open: the screenshot was taken and the call returned
C28_Witness ==
    /\ spc = "returned"
    /\ "viewer_raised" \in {trace[k] : k \in 1..Len(trace)}
    /\ diag = <<<<"error_screenshot.png", "ok">>>>
    /\ songs = <<>>
    /\ closed = <<"context", "browser">>

\* the scrape jobs handed to the executor and not yet ended
ScrapeJobs ==
    {j \in pool.running \cup {pool.queue[k] : k \in 1..Len(pool.queue)} :
        j.fn = "run_scraper"}

\* C29: however the /scrape requests interleave on the thread pool, no two
\* scrape calls share a scraper object, a title list holds the titles of one
\* browser session only, and the raw_titles of a response are titles seen
\* through the session of that request.
C29_OneSessionPerCall ==
    /\ \A j1, j2 \in ScrapeJobs : j1.req # j2.req => j1.obj # j2.obj
    /\ \A o \in Requests : \A k \in 1..Len(pool.songs[o]) :
          pool.songs[o][k].session = pool.songs[o][1].session
    /\ \A r \in Requests : \A k \in 1..Len(pool.answers[r]) :
          pool.answers[r][k].session = r
    /\ \A j \in ScrapeJobs : \A k \in 1..Len(pool.songs[j.obj]) :
          pool.songs[j.obj][k].session = j.req

\* two scrape jobs have read their video side by side, a third request got
\* its titles
C29_Witness ==
    /\ Cardinality({j \in pool.running : j.fn = "run_scraper" /\ j.count = JobVideos}) = 2
    /\ \E r \in Requests : pool.answers[r] = <<Seen(r)>>

\* C30: while scrape jobs are running in the executor a health check still
\* completes, and no job of another request has to wait for a running one.
C30_NothingWaits ==
    /\ pool.health.st = "pending" => ENABLED HealthAnswer
    /\ pool.waited = {}

\* C30, amended: a health check completes whatever jobs are running; a
\* submitted job starts at once while fewer than max_workers jobs are running
\* and waits only when max_workers jobs are.
C30_WaitsOnlyForFullPool ==
    /\ pool.health.st = "pending" => ENABLED HealthAnswer
    /\ Cardinality(pool.running) <= Workers
    /\ (pool.queue # <<>> /\ Cardinality(pool.running) < Workers) => ENABLED StartJob
    /\ \A w \in pool.waited : w.busy = Workers

\* with two scrapes running a health check was answered, and the scrape of
\* a third request waits for a worker
C30_Witness ==
    /\ pool.health = [st |-> "answered", during |-> Workers]
    /\ \A j \in pool.running : j.fn = "run_scraper"
    /\ \E w \in pool.waited : w.job.fn = "run_scraper"

\* a pass of the backend scraper's loop starts with the title the advance
\* just gave, and that title is not a changed one (backend scraper.py 181):
\* nothing was read, or the title of the video just recorded was read again
StaleTitleHeld ==
    /\ impl = "service"
    /\ spc = "loop"
    /\ last_advance = "advanced"
    /\ observed # <<>>
    /\ ~TitleChanged(current_title, observed[Len(observed)])

\* the record step of the backend scraper's loop (backend scraper.py 235-246)
RecordStep == impl = "service" /\ spc = "loop" /\ spc' = "advance"

\* C31: when an advance succeeded and the title did not change, the loop
\* appends the stale title to the title list: the list grows by one entry for
\* that video.
C31_StaleTitleAccepted ==
    [][(StaleTitleHeld /\ RecordStep) => Len(songs') = Len(songs) + 1]_vars

\* C31, as the code has it: when an advance succeeded and the title did not
\* change, the loop counts the video and leaves the title list as it was; the
\* list grows in a pass of the loop exactly when the title it starts with is
\* non-empty and not yet in the list, and then by that title.
C31_StaleTitleIsDuplicate ==
    [][RecordStep =>
          /\ video_count' = video_count + 1
          /\ StaleTitleHeld => songs' = songs
          /\ songs' # songs =>
                /\ Truthy(current_title)
                /\ \A k \in 1..Len(songs) : songs[k] # current_title
                /\ songs' = Append(songs, current_title)]_vars

\* a stale title went through the record step: two passes saw the same
\* non-empty title and the list holds it once
C31_Witness ==
    /\ impl = "service"
    /\ spc = "advance"
    /\ Len(observed) = 2
    /\ Truthy(observed[1])
    /\ observed[2] = observed[1]
    /\ video_count = 2
    /\ songs = <<observed[1]>>

\* the handle grammar: at least one character, each a letter, a digit, an
\* underscore or a period
HandleOk(u) ==
    u # <<>> /\ \A j \in 1..Len(u) : u[j] \in {"a", "b", "1", "_", "."}

\* C32: on every entry point (the /scrape handler and the command-line front
\* ends) a scrape is started only for a handle that is non-empty and made of
\* letters, digits, underscores and periods.
C32_HandlesAreValid == spc # "off" => HandleOk(ScraperUsername)

\* C32, the part that holds: the /scrape handler starts a scrape only for a
\* valid handle, and main never starts one for an empty profile
ServiceHandlesAreValid ==
    spc # "off" =>
        /\ call.fn = "scrape_profile" => HandleOk(ScraperUsername)
        /\ ScraperUsername # <<>>

\* the places of all_results that batch k filled, by what put the item there:
\* the except branch of process_songs ("error") or the value _process_batch
\* returned
PlaceholderPlaces(k) == {j \in 1..Len(prov) : prov[j].batch = k /\ prov[j].how = "error"}
ResponsePlaces(k) == {j \in 1..Len(prov) : prov[j].batch = k /\ prov[j].how # "error"}

\* C33: for every backend response a batch contributes either the items of
\* the parsed response or one error placeholder per title, never both, and
\* every item of the output is a record with an original_title.
C33_RecordsOrPlaceholders ==
    /\ \A k \in 1..Len(sent) : PlaceholderPlaces(k) = {} \/ ResponsePlaces(k) = {}
    /\ \A j \in 1..Len(all_results) :
          all_results[j].kind = "dict" /\ all_results[j].original_title # NoTitle

\* C33, the part that holds: a batch whose request raised, or whose response
\* is an array of records, contributes items of one origin only
C33_OneOriginForRaisedAndRecords ==
    \A k \in 1..Len(outcome) :
        outcome[k] \in {"raised", "parsed", "parse_error"} =>
            PlaceholderPlaces(k) = {} \/ ResponsePlaces(k) = {}

RecoverReturned == fpc = "returned" /\ call.fn = "_try_recover_navigation"

\* C34: in every advance function of both scrapers, the recovery of the root
\* scraper included, a click is issued (click() is called) on the next control
\* only after the control was seen visible and only while it does not carry
\* the disabled attribute.
C34_NeverClicksDisabled ==
    /\ (AdvanceReturned /\ ret.calls > 0) =>
          call.env.visible_at \in 1..VisiblePolls /\ call.env.disabled = "no"
    /\ (NavigateReturned /\ ret.calls > 0) =>
          \E k \in DOMAIN call.outs : call.outs[k] \in {"clicked", "click_raises"}
    /\ (RecoverReturned /\ ret.calls > 0) =>
          call.vis = "visible" /\ call.disabled = "no"

\* C34, the part that holds: the two advance functions click only a control
\* seen visible and read as not disabled, and the recovery clicks only a
\* control seen visible
C34_ClicksOnlyVisible ==
    /\ (AdvanceReturned /\ ret.calls > 0) =>
          call.env.visible_at \in 1..VisiblePolls /\ call.env.disabled = "no"
    /\ (NavigateReturned /\ ret.calls > 0) =>
          \E k \in DOMAIN call.outs : call.outs[k] \in {"clicked", "click_raises"}
    /\ (RecoverReturned /\ ret.calls > 0) => call.vis = "visible"

\* a title as the scrape loops take it: trimmed, None where nothing was found
UpToTrimming(t) == IF t = None THEN None ELSE Strip(t)

\* what the extractor of the other scraper gives on the page of the call
OtherExtractor ==
    IF call.fn = "_get_music_title" THEN _extract_song_title(call.page)
    ELSE _get_music_title(call.page)

ExtractorReturned ==
    fpc = "returned" /\ call.fn \in {"_get_music_title", "_extract_song_title"}

\* the trimmed texts of the selectors that yield one on the page
YieldedTexts(page) == {Strip(page[sel].text) : sel \in {x \in Selectors : Yields(page[x])}}

\* C35: the two scrapers are equivalent: on every page state the title
\* extractor of the one gives the title the extractor of the other gives, up
\* to trimming (and so their loops collect the same list from a carousel).
C35_ExtractorsAgree ==
    ExtractorReturned => UpToTrimming(ret) = UpToTrimming(OtherExtractor)

\* C35, the part that holds: the extractors agree on every page where the
\* selectors that yield a text yield the same one
C35_AgreeOnOneText ==
    (ExtractorReturned /\ Cardinality(YieldedTexts(call.page)) <= 1) =>
        UpToTrimming(ret) = UpToTrimming(OtherExtractor)

\* classification was asked for: process_with_ai of the request, or no
\* --scrape-only on the command line
AiRequested ==
    IF call.fn = "scrape_profile" THEN call.process_with_ai ELSE ~call.scrape_only

\* the run has made a SongProcessor work: process_songs is under way or a
\* batch was sent to the backend
ClassificationStarted == ppc # "off" \/ sent # <<>> \/ inflight > 0

\* C36: in the /scrape handler and in both command-line front ends,
\* classification starts only when the scrape is over, its title list is not
\* empty, classification was asked for and the API key is set; otherwise no
\* request goes to the backend, and a response of the handler then has no
\* processed_songs and counts 0 real songs.
C36_ClassificationOnlyWithTitles ==
    /\ ClassificationStarted =>
          /\ spc = "off"
          /\ raw_titles # <<>>
          /\ AiRequested
          /\ call.gemini_api_key
          /\ call.fn = "scrape_profile" => raw_titles = songs
          /\ (call.fn = "main" /\ ~call.process_only) => raw_titles = songs
    /\ (fpc = "responded" /\ ret.kind = "ScrapeResponse"
          /\ (ret.raw_titles = <<>> \/ ~AiRequested \/ ~call.gemini_api_key)) =>
          /\ ~ret.processed
          /\ ret.processed_songs = <<>>
          /\ ~ClassificationStarted
    /\ (fpc = "exited" /\ ret.how \in {"no_profile", "not_found", "scrape_only",
                                         "no_key", "nothing"}) =>
          ~ClassificationStarted

\* a command-line run scraped titles and left without classifying them, the
\* key not being set
C36_Witness ==
    /\ call.fn = "main"
    /\ fpc = "exited"
    /\ ret = Exit("no_key")
    /\ ~call.scrape_only
    /\ raw_titles # <<>>
    /\ songs = raw_titles
    /\ ~ClassificationStarted

\* a request that asked for classification was answered with titles and
\* without processed_songs, the key not being set
C36_WitnessHandler ==
    /\ call.fn = "scrape_profile"
    /\ fpc = "responded"
    /\ ret.kind = "ScrapeResponse"
    /\ ret.raw_titles # <<>>
    /\ call.process_with_ai
    /\ ~call.gemini_api_key
    /\ ~ret.processed

\* the files of that name written so far
Written(name) == SelectSeq(files, LAMBDA f : f.name = name)

\* a command-line run that was to scrape and whose scrape is over
ScrapeOver ==
    /\ call.fn = "main"
    /\ ~call.process_only
    /\ fpc \in {"process_with_ai", "exited", "raised"}
    /\ fpc = "exited" => ret # Exit("no_profile")

\* a --process-only run with no raw_songs.json makes no scrape and sends
\* nothing to the backend
MissingFileEndsRun ==
    (call.fn = "main" /\ call.process_only) =>
        /\ spc = "off"
        /\ Written("raw_songs.json") = <<>>
        /\ ~call.raw_songs.there =>
              /\ ~ClassificationStarted
              /\ fpc \in {"main", "exited"}
              /\ fpc = "exited" => ret = Exit("not_found")

\* C37: in the command-line front ends raw_songs.json is written with the
\* title list after every scrape, also one that failed or found nothing, and
\* before any classification request; a --process-only run with no
\* raw_songs.json ends with no scrape and no backend request.
C37_RawSavedAfterEveryScrape ==
    /\ ScrapeOver =>
          /\ files # <<>>
          /\ files[1] = File("raw_songs.json", songs)
          /\ Len(Written("raw_songs.json")) = 1
    /\ MissingFileEndsRun

\* C37, as the code has it: raw_songs.json is written with the title list
\* after every scrape_songs call that returned, also one that failed inside
\* or found nothing, and before any classification request, so it holds the
\* titles whatever classification does; when the browser could not be set up
\* the exception leaves main, no title was read and no file is written; a
\* --process-only run with no raw_songs.json ends with no scrape and no
\* backend request.
C37_RawSavedAfterEveryReturn ==
    /\ (ScrapeOver /\ "setup" \notin faults) =>
          /\ files # <<>>
          /\ files[1] = File("raw_songs.json", songs)
          /\ Len(Written("raw_songs.json")) = 1
    /\ (ScrapeOver /\ "setup" \in faults) =>
          /\ fpc = "raised"
          /\ files = <<>>
          /\ songs = <<>>
          /\ ~ClassificationStarted
    /\ (call.fn = "main" /\ ~call.process_only /\ ClassificationStarted) =>
          files # <<>> /\ files[1] = File("raw_songs.json", raw_titles)
    /\ MissingFileEndsRun

\* classification failed after the titles were saved: main ended with an
\* exception and raw_songs.json holds the scraped titles
C37_Witness ==
    /\ call.fn = "main"
    /\ ~call.process_only
    /\ fpc = "raised"
    /\ sent # <<>>
    /\ raw_titles # <<>>
    /\ Written("raw_songs.json") = <<File("raw_songs.json", raw_titles)>>

\* a scrape that could not load the profile: raw_songs.json is written with
\* the empty list
C37_WitnessNothingFound ==
    /\ call.fn = "main"
    /\ fpc = "exited"
    /\ ret = Exit("scrape_only")
    /\ files = <<File("raw_songs.json", <<>>)>>

====
